---------------------------- MODULE Spec2Model ----------------------------
(***************************************************************************)
(* Transform-and-collision engine of the nelson3d scene editor             *)
(* (src/components/SceneWrapper.tsx).                                      *)
(*                                                                         *)
(* Numbers.  The program computes with IEEE doubles; the model computes    *)
(* with fixed-point integers:                                              *)
(*   lengths  in units of 1/PosScale   scene units  (0.1),                 *)
(*   angles   in units of 1/AngScale   radians      (1e-4),                *)
(*   cosines  in units of 1/TrigScale               (1e-3),                *)
(*   pointer  in units of 1/NdcScale   of the normalized device range.     *)
(* Rounding is to nearest, as the doubles round.                           *)
(***************************************************************************)
EXTENDS Integers, Sequences, FiniteSets, TLC

PosScale == 10
AngScale == 10000
TrigScale == 1000
NdcScale == 1000

\* Math.PI in angle units
PI == 31416

-----------------------------------------------------------------------------
(* Arithmetic helpers                                                      *)

Abs(v) == IF v < 0 THEN -v ELSE v

Min(a, b) == IF a < b THEN a ELSE b

Max(a, b) == IF a > b THEN a ELSE b

\* integer division rounding to nearest (d > 0), ties away from zero
RoundDiv(n, d) == IF n >= 0 THEN (2 * n + d) \div (2 * d)
                            ELSE -((2 * (-n) + d) \div (2 * d))

\* angle reduced to (-PI, PI]
WrapAngle(a) ==
    LET m == a % (2 * PI)
    IN  IF m > PI THEN m - 2 * PI ELSE m

\* Math.sin on [-PI/2, PI/2], argument in angle units, result in 1/AngScale
SinSeries(x) ==
    LET x2 == RoundDiv(x * x, AngScale)
        x3 == RoundDiv(x * x2, AngScale)
        x5 == RoundDiv(x3 * x2, AngScale)
        x7 == RoundDiv(x5 * RoundDiv(x2, 10), AngScale \div 10)
    IN  x - RoundDiv(x3, 6) + RoundDiv(x5, 120) - RoundDiv(x7, 5040)

\* Math.sin, result in 1/TrigScale
Sin(a) ==
    LET w == WrapAngle(a)
        r == IF w > PI \div 2 THEN PI - w
             ELSE IF w < -(PI \div 2) THEN -PI - w
             ELSE w
        s == RoundDiv(SinSeries(r) * TrigScale, AngScale)
    IN  Max(-TrigScale, Min(TrigScale, s))

\* Math.cos, result in 1/TrigScale
Cos(a) == Sin(a + PI \div 2)


-----------------------------------------------------------------------------
(* Bounding Volume Proxy                                                   *)

FLOOR_SIZE == 20 * PosScale

FLOOR_HALF == FLOOR_SIZE \div 2

\* localCenter = (0, 1, 0) and halfSize = (0.6, 0.9, 0.6), the same for every model
LocalCenter == <<0, 1 * PosScale, 0>>

HalfSize == <<6, 9, 6>>

Dot(u, v) == u[1] * v[1] + u[2] * v[2] + u[3] * v[3]

VAdd(u, v) == <<u[1] + v[1], u[2] + v[2], u[3] + v[3]>>

VSub(u, v) == <<u[1] - v[1], u[2] - v[2], u[3] - v[3]>>

\* product of two numbers in 1/TrigScale
TMul(a, b) == RoundDiv(a * b, TrigScale)

\* Object3D.updateMatrixWorld for an unparented, unscaled node: the rotation
\* block of the matrix of an Euler triple in the order XYZ (rows of the matrix)
RotationMatrix(rot) ==
    LET a == Cos(rot[1])
        b == Sin(rot[1])
        c == Cos(rot[2])
        d == Sin(rot[2])
        e == Cos(rot[3])
        f == Sin(rot[3])
    IN  << << TMul(c, e), -TMul(c, f), d >>,
           << TMul(a, f) + TMul(TMul(b, e), d),
              TMul(a, e) - TMul(TMul(b, f), d),
              -TMul(b, c) >>,
           << TMul(b, f) - TMul(TMul(a, e), d),
              TMul(b, e) + TMul(TMul(a, f), d),
              TMul(a, c) >> >>

\* Object3D.updateMatrixWorld(true) of a node: the world matrix composed from
\* the node's position and Euler rotation (no parent, unit scale).  The matrix
\* remembers the Euler triple it was composed from, so that an unchanged
\* rotation does not evaluate the cosines again; the value is the same.
updateMatrixWorld(node) ==
    [node EXCEPT !.matrixWorld =
        [translation |-> node.position,
         euler |-> node.rotation,
         basis |-> IF node.matrixWorld.euler = node.rotation
                   THEN node.matrixWorld.basis
                   ELSE RotationMatrix(node.rotation)]]

\* the node React creates for a record: props applied, world matrix composed
NodeOf(rec) ==
    [position |-> rec.position,
     rotation |-> rec.rotation,
     matrixWorld |-> [translation |-> rec.position,
                      euler |-> rec.rotation,
                      basis |-> RotationMatrix(rec.rotation)]]

\* getRotationMatrixFromObject: decompose the world matrix and rebuild a
\* rotation-only 3x3 from the quaternion (scale is 1, so the block itself)
getRotationMatrixFromObject(mesh) == mesh.matrixWorld.basis

\* getWorldCenter: localCenter.applyMatrix4(mesh.matrixWorld)
getWorldCenter(mesh) ==
    LET m == mesh.matrixWorld.basis
    IN  VAdd(mesh.matrixWorld.translation,
             << RoundDiv(Dot(m[1], LocalCenter), TrigScale),
                RoundDiv(Dot(m[2], LocalCenter), TrigScale),
                RoundDiv(Dot(m[3], LocalCenter), TrigScale) >>)

\* getUpdatedOBB: world centre, the authored half size, world orientation
getUpdatedOBB(mesh) ==
    [center |-> getWorldCenter(mesh),
     halfSize |-> HalfSize,
     rotation |-> getRotationMatrixFromObject(mesh)]

-----------------------------------------------------------------------------
(* Collision Oracle                                                        *)

\* Matrix3.extractBasis: column j of the rotation
Basis(m, j) == <<m[1][j], m[2][j], m[3][j]>>

Nxt(i) == (i % 3) + 1

\* R[i][j] = a.u[i] . b.u[j]: the rotation of B in the frame of A
RelativeRotation(ra, rb) ==
    << << RoundDiv(Dot(Basis(ra, 1), Basis(rb, 1)), TrigScale),
          RoundDiv(Dot(Basis(ra, 1), Basis(rb, 2)), TrigScale),
          RoundDiv(Dot(Basis(ra, 1), Basis(rb, 3)), TrigScale) >>,
       << RoundDiv(Dot(Basis(ra, 2), Basis(rb, 1)), TrigScale),
          RoundDiv(Dot(Basis(ra, 2), Basis(rb, 2)), TrigScale),
          RoundDiv(Dot(Basis(ra, 2), Basis(rb, 3)), TrigScale) >>,
       << RoundDiv(Dot(Basis(ra, 3), Basis(rb, 1)), TrigScale),
          RoundDiv(Dot(Basis(ra, 3), Basis(rb, 2)), TrigScale),
          RoundDiv(Dot(Basis(ra, 3), Basis(rb, 3)), TrigScale) >> >>

\* t = (b.c - a.c) brought into the frame of A
RelativeTranslation(A, B) ==
    << Dot(VSub(B.center, A.center), Basis(A.rotation, 1)),
       Dot(VSub(B.center, A.center), Basis(A.rotation, 2)),
       Dot(VSub(B.center, A.center), Basis(A.rotation, 3)) >>

\* AbsR[i][j] = |R[i][j]| + Number.EPSILON; the epsilon is below the resolution
AbsMatrix(R) ==
    << << Abs(R[1][1]), Abs(R[1][2]), Abs(R[1][3]) >>,
       << Abs(R[2][1]), Abs(R[2][2]), Abs(R[2][3]) >>,
       << Abs(R[3][1]), Abs(R[3][2]), Abs(R[3][3]) >> >>

\* the projected distance exceeds the projected extents on one of the 15 axes:
\* the three axes of A, the three of B, the nine cross products
SeparatedOn(ae, be, R, t, AbsR) ==
    \/ \E i \in 1 .. 3 :
          Abs(t[i]) > ae[i] * TrigScale
                      + be[1] * AbsR[i][1] + be[2] * AbsR[i][2] + be[3] * AbsR[i][3]
    \/ \E j \in 1 .. 3 :
          Abs(t[1] * R[1][j] + t[2] * R[2][j] + t[3] * R[3][j])
            > (ae[1] * AbsR[1][j] + ae[2] * AbsR[2][j] + ae[3] * AbsR[3][j]) * TrigScale
              + be[j] * TrigScale * TrigScale
    \/ \E i \in 1 .. 3 : \E j \in 1 .. 3 :
          Abs(t[Nxt(Nxt(i))] * R[Nxt(i)][j] - t[Nxt(i)] * R[Nxt(Nxt(i))][j])
            > (ae[Nxt(i)] * AbsR[Nxt(Nxt(i))][j] + ae[Nxt(Nxt(i))] * AbsR[Nxt(i)][j]
               + be[Nxt(j)] * AbsR[i][Nxt(Nxt(j))] + be[Nxt(Nxt(j))] * AbsR[i][Nxt(j)])
              * TrigScale

SeparatingAxis(ae, be, R, t) == SeparatedOn(ae, be, R, t, AbsMatrix(R))

\* OBB.intersectsOBB (three/examples/jsm/math/OBB.js): separating-axis test on
\* the 15 candidate axes; an axis separates only when the projected distance is
\* strictly greater than the sum of the radii, so touching boxes intersect.
\* Number.EPSILON, added to every |R[i][j]|, is below the fixed-point resolution.
intersectsOBB(A, B) ==
    ~SeparatingAxis(A.halfSize, B.halfSize,
                    RelativeRotation(A.rotation, B.rotation),
                    RelativeTranslation(A, B))


-----------------------------------------------------------------------------
(* Scene Coordinator: state                                                *)

VARIABLES
    models,                 \* props.models: the Model Transform Records
    nodes,                  \* modelRefs[i].mesh: position and rotation of the node
    mounted,                \* indices i with a modelRefs[i] entry
    selectedModelIndex,     \* props.selectedModelIndex
    dragging,               \* useState dragging
    rotating,               \* useState rotating
    pointer,                \* pointer ref: x, y, xDelta, yDelta
    floorUnder,             \* where the ray through the pointer meets the plane y = 0
    intersection,           \* intersection ref
    dragOffset,             \* dragOffset ref
    rotationTargets,        \* rotationTargets ref
    unsavedModels,          \* unsavedModelsRef: the dirty set
    savingCount,            \* savingCountRef
    previousSelectedIndex,  \* previousSelectedIndex ref
    inflight,               \* setDoc calls issued and not settled
    nextSave,               \* number of setDoc calls issued so far
    store,                  \* the remote documents
    camera,                 \* the default camera: position, rotation, zoom
    orbit,                  \* OrbitControls: azimuthal and polar angle, distance
    unmounted,              \* the scene component has been torn down
    topDown,                \* props.topDown
    call,                   \* the imperative operation that ran last, and its index
    ret,                    \* what the operation that ran last returned
    budget,                 \* input events still allowed
    pointerDownPos,         \* pointerDownPos.current: where the floor was pressed
    draggingRef,            \* draggingRef.current: the floor press became a drag
    target,                 \* orbit.target: the pivot of the orbit camera
    rafQueue                \* the animate callbacks waiting for the next frame

vars == << models, nodes, mounted, selectedModelIndex, dragging, rotating, pointer,
           floorUnder, intersection, dragOffset, rotationTargets, unsavedModels,
           savingCount, previousSelectedIndex, inflight, nextSave, store, camera,
           topDown, orbit, unmounted, call, ret, budget, pointerDownPos,
           draggingRef, target, rafQueue >>

sceneVars == << models, nodes, unsavedModels >>

gestureVars == << dragging, rotating, pointer, floorUnder, intersection, dragOffset,
                  rotationTargets >>

saveVars == << savingCount, previousSelectedIndex, inflight, nextSave, store >>

floorVars == << pointerDownPos, draggingRef >>

panVars == << target, rafQueue >>

\* null and undefined; a value that may be null is held as Some(v)
Null == << >>

Some(v) == << v >>

Val(o) == o[1]

\* the ray through the pointer misses the plane
NoHit == << >>

\* the camera of <Cameras/> at [5, 5, 5] looking at the orbit target (0, 0, 0):
\* azimuthal angle pi/4, polar angle acos(1/sqrt 3), distance sqrt 75
InitialOrbit == [azimuthal |-> PI \div 4, polar |-> 9553, distance |-> 87]

\* the records fetched by loadModels: two models at (-1,0,0) and (1,0,0)
InitialScene ==
    << [position |-> <<-10, 0, 0>>, rotation |-> <<0, 0, 0>>],
       [position |-> <<10, 0, 0>>, rotation |-> <<0, 0, 0>>] >>

NumModels == Len(InitialScene)

\* JavaScript array indices of models and modelRefs
ModelIdx == 0 .. (NumModels - 1)

\* model.path of model i
PathOf(i) == IF i = 0 THEN "chair.glb" ELSE "table.glb"

\* the documents of the "models" collection when loadModels reads them: a
\* ModelData has path, position, rotation and may have a scale
RemoteDocs ==
    [i \in ModelIdx |-> [path |-> PathOf(i),
                         position |-> InitialScene[i + 1].position,
                         rotation |-> InitialScene[i + 1].rotation,
                         scale |-> <<1, 1, 1>>]]

\* indices a caller may pass: one below and one above the valid range too
CallIdx == -1 .. NumModels

-----------------------------------------------------------------------------
(* Bounds of the exploration                                               *)

\* input events (calls of the imperative API, pointer events, clicks) in a run
MaxEvents == 5

\* an input event that starts or drops animations of the camera
PanEvent(A) ==
    ~unmounted /\ budget > 0 /\ budget' = budget - 1 /\ UNCHANGED floorVars /\ A

\* an input event that reaches the handlers of the floor mesh as well
FloorEvent(A) ==
    ~unmounted /\ budget > 0 /\ budget' = budget - 1 /\ UNCHANGED panVars /\ A

\* the release of the button over the floor mesh
FloorInternal(A) == UNCHANGED budget /\ UNCHANGED panVars /\ A

\* an input event: it is delivered while the run's budget lasts; the refs of
\* the floor mesh are written by the floor's own handlers only, the pivot and
\* the animation callbacks by panCamera, its animation and the view switch
Event(A) ==
    /\ ~unmounted /\ budget > 0 /\ budget' = budget - 1
    /\ UNCHANGED floorVars /\ UNCHANGED panVars
    /\ A

\* a step of the program itself (a frame tick, a settling promise, a mount)
Internal(A) == UNCHANGED budget /\ UNCHANGED floorVars /\ UNCHANGED panVars /\ A

\* a frame of the browser: the callbacks passed to requestAnimationFrame
PanInternal(A) == UNCHANGED budget /\ UNCHANGED floorVars /\ A

\* pointer positions the environment delivers: normalized device coordinates
\* and the floor point the camera ray through them meets
ScreenPoints ==
    { [ndc |-> <<-200, 0>>, floor |-> <<-10, 0, 0>>],
      [ndc |-> <<0, 100>>, floor |-> <<0, 0, 5>>],
      [ndc |-> <<900, 50>>, floor |-> <<110, 0, 0>>],
      [ndc |-> <<50, -900>>, floor |-> <<0, 0, 110>>] }

\* arguments the sidebar and scripts pass to safeUpdateModelTransform
UpdateArgs ==
    { [position |-> <<95, 0, 0>>],
      [position |-> <<0, 0, 0>>],
      [position |-> <<150, 0, 5>>, rotation |-> <<0, 7854, 0>>],
      [rotation |-> <<0, 7854, 0>>] }

\* the updates that arrive in the course of a drag session
DragUpdateArgs == { u \in UpdateArgs : "position" \in DOMAIN u /\ u.position[1] > 5 * PosScale }

\* an update that puts model 0 next to model 1, lifted and tilted
PoseArgs == { [position |-> <<-3, 5, 0>>, rotation |-> <<1000, 0, 500>>] }

\* the pointer positions of a press on the floor: the place of the press, 5
\* and 6 pixels beside it, and a place beyond the floor's edge
FloorPoints ==
    { [ndc |-> <<0, 100>>, floor |-> <<0, 0, 5>>],
      [ndc |-> <<5, 100>>, floor |-> <<0, 0, 5>>],
      [ndc |-> <<6, 100>>, floor |-> <<0, 0, 5>>],
      [ndc |-> <<900, 50>>, floor |-> <<110, 0, 0>>] }

\* animations of the camera that run at the same time
MaxPans == 2

\* the arrow keys pressed in a pan session
PanKeys == {"left", "up"}

\* the pointer positions of a rotate session: along the screen's X axis
RotatePoints == { sp \in ScreenPoints : sp.floor[3] = 0 }

\* angles passed to orbitAroundModel
OrbitAngles == {0, 15708}

\* maxPolarAngle = Math.PI / 2
MaxPolarStop == 15708

\* directions the view is turned to with the mouse: <<azimuthal, polar>>
TurnStops == { <<30000, 9553>>, <<-30000, 2000>>, <<0, MaxPolarStop>> }

\* distances the view is dollied to with the wheel
DollyStops == {10, 12, 998, 1000}

\* directions of rotateCamera
Directions == {"left", "right", "up", "down"}

\* partial poses handed to setCamera
CameraArgs ==
    { [position |-> <<10, 20, 30>>],
      [zoom |-> 2],
      [rotation |-> <<0, 15708, 0>>, zoom |-> 3] }

-----------------------------------------------------------------------------
(* Initial state: the records are loaded, the assets are still suspended   *)

Init ==
    /\ models = [i \in ModelIdx |-> InitialScene[i + 1]]
    /\ nodes = [i \in ModelIdx |-> NodeOf(InitialScene[i + 1])]
    /\ mounted = {}
    /\ selectedModelIndex = Null
    /\ dragging = FALSE
    /\ rotating = FALSE
    /\ pointer = [x |-> 0, y |-> 0, xDelta |-> 0, yDelta |-> 0]
    /\ floorUnder = <<0, 0, 0>>
    /\ intersection = <<0, 0, 0>>
    /\ dragOffset = <<0, 0, 0>>
    /\ rotationTargets = [i \in ModelIdx |-> Null]
    /\ unsavedModels = {}
    /\ savingCount = 0
    /\ previousSelectedIndex = Null
    /\ inflight = {}
    /\ nextSave = 0
    /\ store = RemoteDocs
    /\ camera = [position |-> <<50, 50, 50>>, rotation |-> <<-7854, 6155, 5236>>,
                 zoom |-> 1]
    /\ topDown = FALSE
    /\ orbit = InitialOrbit
    /\ unmounted = FALSE
    /\ call = Null
    /\ ret = "none"
    /\ budget = MaxEvents
    /\ pointerDownPos = Null
    /\ draggingRef = FALSE
    /\ target = <<0, 0, 0>>
    /\ rafQueue = << >>


-----------------------------------------------------------------------------
(* Transform Mutator                                                       *)

\* modelRefs.current[index]: undefined outside the array, and before the mount
HasEntry(index) == index \in ModelIdx /\ index \in mounted

\* a faulty collision test: the scan starts after the moved model's own slot
wouldCollideAboveOnly(mesh, index) ==
    LET updatedOBB == getUpdatedOBB(mesh)
    IN  \E j \in ModelIdx :
            /\ j \in mounted
            /\ j > index
            /\ intersectsOBB(updatedOBB, getUpdatedOBB(nodes[j]))

\* modelRefs.current.some((r, j) => r && j !== index && obb.intersectsOBB(getUpdatedOBB(r)))
wouldCollide(mesh, index) ==
    LET updatedOBB == getUpdatedOBB(mesh)
    IN  \E j \in ModelIdx :
            /\ j \in mounted
            /\ j # index
            /\ intersectsOBB(updatedOBB, getUpdatedOBB(nodes[j]))

\* a faulty merge: the spreads in the wrong order, { ...updates, ...newModels[index] }
MergeUnderOld(rec, updates) == rec

\* { ...newModels[index], ...updates }
Merge(rec, updates) ==
    [f \in DOMAIN rec |-> IF f \in DOMAIN updates THEN updates[f] ELSE rec[f]]

\* updateModelState: write the supplied fields through to the record, mark dirty
\* a faulty mark: every model is marked dirty
AddDirtyAll(dirty, index) == dirty \cup ModelIdx

\* unsavedModelsRef.current.add(index)
AddDirty(dirty, index) == dirty \cup {index}

\* a faulty commit: the index is marked dirty but the record is not replaced
updateModelStateMarkOnly(index, updates) ==
    /\ models' = models
    /\ unsavedModels' = AddDirty(unsavedModels, index)

updateModelState(index, updates) ==
    /\ models' = [models EXCEPT ![index] = Merge(@, updates)]
    /\ unsavedModels' = AddDirty(unsavedModels, index)

\* index < 0 || index >= models.length
IndexOutOfRange(index) == index < 0 \/ index >= NumModels

\* a faulty guard: the test of the entry left out
EntryNeverMissing(index) == FALSE

\* !entry
EntryMissing(index) == ~HasEntry(index)

\* reading entry.mesh of a missing entry raises
Raise ==
    /\ ret' = "TypeError"
    /\ UNCHANGED sceneVars

\* safeUpdateModelTransform(index, updates)
safeUpdateModelTransform(index, updates) ==
    /\ call' = Some([op |-> "safeUpdateModelTransform", index |-> index])
    /\ UNCHANGED << orbit, unmounted >>
    /\ IF IndexOutOfRange(index)
       THEN ret' = "false" /\ UNCHANGED sceneVars
       ELSE IF EntryMissing(index)
       THEN ret' = "false" /\ UNCHANGED sceneVars
       ELSE IF ~HasEntry(index)
       THEN Raise
       ELSE LET proposed == updateMatrixWorld(Merge(nodes[index], updates))
            IN  IF wouldCollide(proposed, index)
                THEN \* restore the snapshot
                     /\ ret' = "false"
                     /\ UNCHANGED sceneVars
                ELSE /\ nodes' = [nodes EXCEPT ![index] = proposed]
                     /\ updateModelState(index, updates)
                     /\ ret' = "true"
    /\ UNCHANGED << mounted, selectedModelIndex, camera, topDown >>
    /\ UNCHANGED gestureVars
    /\ UNCHANGED saveVars

-----------------------------------------------------------------------------
(* Camera by index                                                         *)

\* cameraControlsRef.current: <InnerCameraControls/> is rendered without a ref,
\* so the ref object keeps its initial value
cameraControlsRef == Null

\* cameraControlsRef.current?.setCamera(params)
setCameraViaRef(params) ==
    IF cameraControlsRef = Null
    THEN UNCHANGED camera
    ELSE camera' = Merge(camera, params)

\* zoomToModel(index)
zoomToModel(index) ==
    /\ call' = Some([op |-> "zoomToModel", index |-> index])
    /\ UNCHANGED << orbit, unmounted >>
    /\ IF EntryMissing(index)
       THEN ret' = "false" /\ UNCHANGED camera
       ELSE IF ~HasEntry(index)
       THEN ret' = "TypeError" /\ UNCHANGED camera
       ELSE LET c == getWorldCenter(nodes[index])
            IN  /\ IF topDown
                   THEN setCameraViaRef([position |-> <<c[1], 10 * PosScale, c[3]>>,
                                         rotation |-> <<-(PI \div 2), 0, PI \div 2>>,
                                         zoom |-> 4])
                   ELSE setCameraViaRef([position |-> <<c[1] + 5 * PosScale,
                                                        c[2] + 5 * PosScale,
                                                        c[3] + 5 * PosScale>>,
                                         rotation |-> <<-5000, 5000, 0>>])
                /\ ret' = "true"
    /\ UNCHANGED << mounted, selectedModelIndex, topDown >>
    /\ UNCHANGED sceneVars
    /\ UNCHANGED gestureVars
    /\ UNCHANGED saveVars

\* orbitAroundModel(index, angle)
orbitAroundModel(index, angle) ==
    /\ call' = Some([op |-> "orbitAroundModel", index |-> index])
    /\ UNCHANGED << orbit, unmounted >>
    /\ IF EntryMissing(index)
       THEN ret' = "false" /\ UNCHANGED camera
       ELSE IF ~HasEntry(index)
       THEN ret' = "TypeError" /\ UNCHANGED camera
       ELSE LET c == getWorldCenter(nodes[index])
                radius == 5 * PosScale
            IN  /\ setCameraViaRef([position |->
                       << c[1] + RoundDiv(radius * Cos(angle), TrigScale),
                          c[2] + radius \div 2,
                          c[3] + RoundDiv(radius * Sin(angle), TrigScale) >>])
                /\ ret' = "true"
    /\ UNCHANGED << mounted, selectedModelIndex, topDown >>
    /\ UNCHANGED sceneVars
    /\ UNCHANGED gestureVars
    /\ UNCHANGED saveVars

\* the pose resetCamera of InnerCameraControls sets
ResetPose ==
    [position |-> << 5 * PosScale, 5 * PosScale, 5 * PosScale >>,
     rotation |-> <<0, 0, 0>>, zoom |-> 1]

\* getCamera() of the scene handle: it throws when cameraControlsRef.current is
\* null, and returns the pose otherwise
getCamera ==
    /\ call' = Some([op |-> "getCamera",
                     pose |-> IF cameraControlsRef = Null THEN Null ELSE Some(camera)])
    /\ ret' = IF cameraControlsRef = Null THEN "Error" ELSE "pose"
    /\ UNCHANGED << mounted, selectedModelIndex, camera, topDown, orbit, unmounted >>
    /\ UNCHANGED sceneVars
    /\ UNCHANGED gestureVars
    /\ UNCHANGED saveVars

\* setCamera(params) of the scene handle
setCamera(params) ==
    /\ call' = Some([op |-> "setCamera", params |-> params])
    /\ setCameraViaRef(params)
    /\ ret' = "none"
    /\ UNCHANGED << mounted, selectedModelIndex, topDown, orbit, unmounted >>
    /\ UNCHANGED sceneVars
    /\ UNCHANGED gestureVars
    /\ UNCHANGED saveVars

\* resetCamera() of the scene handle: cameraControlsRef.current?.resetCamera()
resetCamera ==
    /\ call' = Some([op |-> "resetCamera"])
    /\ IF cameraControlsRef = Null
       THEN UNCHANGED camera
       ELSE camera' = ResetPose
    /\ ret' = "none"
    /\ UNCHANGED << mounted, selectedModelIndex, topDown, orbit, unmounted >>
    /\ UNCHANGED sceneVars
    /\ UNCHANGED gestureVars
    /\ UNCHANGED saveVars

-----------------------------------------------------------------------------
(* Orbit camera                                                            *)

\* zoomStep = 0.5 and angleStep = 0.5, the defaults every caller uses
ZoomStep == 5

AngleStep == 5000

\* orbit.minDistance || 1 and orbit.maxDistance || 100, with the props
\* minDistance={1} maxDistance={100}
MinDistance == 1 * PosScale

MaxDistance == 100 * PosScale

\* orbit.minPolarAngle || 0 and orbit.maxPolarAngle || Math.PI, with the props
\* minPolarAngle={0} maxPolarAngle={Math.PI / 2}
MinPolar == 0

MaxPolar == PI \div 2

\* the spherical offset of the camera from the target (0, 0, 0) as a position:
\* Vector3.setFromSpherical
FromSpherical(o) ==
    << RoundDiv(o.distance * Sin(o.polar) * Sin(o.azimuthal), TrigScale * TrigScale),
       RoundDiv(o.distance * Cos(o.polar), TrigScale),
       RoundDiv(o.distance * Sin(o.polar) * Cos(o.azimuthal), TrigScale * TrigScale) >>

\* orbit.update() with the spherical coordinates o: the camera is put at the
\* target plus the offset and turned to the target. The direction it then
\* looks in is (azimuthal, polar) of orbit; camera.rotation keeps the Euler
\* angles of the pose at construction.
\* the orbit's frame has the camera's up vector as its Y axis: the default
\* camera has up = (0, 1, 0), the top-down camera up = (0, 0, 1)
ToWorld(v, td) == IF td THEN << v[1], -v[3], v[2] >> ELSE v

orbitUpdate(o) ==
    /\ orbit' = o
    /\ camera' = [camera EXCEPT !.position = VAdd(target, ToWorld(FromSpherical(o), topDown))]

\* a faulty clamp: the lower limit left out
ClampDistanceAbove(d) == Min(MaxDistance, d)

\* Math.min(maxDistance, Math.max(minDistance, newDistance))
ClampDistance(d) == Min(MaxDistance, Max(MinDistance, d))

\* Math.min(maxPolar, Math.max(minPolar, polar))
\* a faulty clamp: the upper limit is not applied
ClampPolarBelow(a) == Max(MinPolar, a)

ClampPolar(a) == Min(MaxPolar, Max(MinPolar, a))

\* zoomCamera(orbit, zoomIn): the offset keeps its direction and gets the
\* clamped length
zoomCamera(zoomIn) ==
    /\ orbitUpdate([orbit EXCEPT !.distance =
           ClampDistance(IF zoomIn THEN @ - ZoomStep ELSE @ + ZoomStep)])
    /\ call' = Some([op |-> "zoomCamera", zoomIn |-> zoomIn])
    /\ ret' = "none"
    /\ UNCHANGED << mounted, selectedModelIndex, topDown, unmounted >>
    /\ UNCHANGED sceneVars
    /\ UNCHANGED gestureVars
    /\ UNCHANGED saveVars

\* rotateCamera(orbit, direction)
rotateCamera(direction) ==
    /\ orbitUpdate([orbit EXCEPT
           !.azimuthal = WrapAngle(CASE direction = "left" -> @ - AngleStep
                                     [] direction = "right" -> @ + AngleStep
                                     [] OTHER -> @),
           !.polar = ClampPolar(CASE direction = "up" -> @ - AngleStep
                                  [] direction = "down" -> @ + AngleStep
                                  [] OTHER -> @)])
    /\ call' = Some([op |-> "rotateCamera", direction |-> direction])
    /\ ret' = "none"
    /\ UNCHANGED << mounted, selectedModelIndex, topDown, unmounted >>
    /\ UNCHANGED sceneVars
    /\ UNCHANGED gestureVars
    /\ UNCHANGED saveVars

\* a faulty prop: enabled={true}
orbitEnabledAlways == TRUE

\* enabled={selectedModelIndex === null} of <OrbitControls>
orbitEnabled == selectedModelIndex = Null

\* the user turns the view with the mouse: OrbitControls is enabled while no
\* model is selected, and rotates unless the view is top-down
OrbitTurn(to) ==
    /\ orbitEnabled /\ ~topDown
    /\ orbitUpdate([orbit EXCEPT !.azimuthal = to[1], !.polar = to[2]])
    /\ call' = Null
    /\ ret' = "none"
    /\ UNCHANGED << mounted, selectedModelIndex, topDown, unmounted >>
    /\ UNCHANGED sceneVars
    /\ UNCHANGED gestureVars
    /\ UNCHANGED saveVars

\* the user dollies with the wheel: OrbitControls keeps the distance within
\* [minDistance, maxDistance]
OrbitDolly(d) ==
    /\ orbitEnabled
    /\ orbitUpdate([orbit EXCEPT !.distance = d])
    /\ call' = Null
    /\ ret' = "none"
    /\ UNCHANGED << mounted, selectedModelIndex, topDown, unmounted >>
    /\ UNCHANGED sceneVars
    /\ UNCHANGED gestureVars
    /\ UNCHANGED saveVars


-----------------------------------------------------------------------------
(* Pan animation and the view switch                                       *)

\* distance = 0.5
PanDistance == 5

\* duration = 200 ms, counted in ticks of 50 ms
PanTicks == 4

\* the time between two frames of the browser, in ticks
FrameSteps == {1, 2}

\* if (camera.position.y < 0.1) camera.position.y = 0.1
CameraFloor == 1

Sgn(x) == IF x > 0 THEN 1 ELSE IF x < 0 THEN -1 ELSE 0

\* camera.up
CameraUp(td) == IF td THEN <<0, 0, TrigScale>> ELSE <<0, TrigScale, 0>>

\* right = forward x camera.up, normalized, where forward is the camera's
\* direction with its Y set to 0, normalized.  The default camera looks from
\* target + offset(orbit) to the target (OrbitControls keeps the polar angle
\* off the pole), so forward = -(sin az, 0, cos az).  The top-down camera's
\* horizontal direction is along Z or zero, and its cross product with
\* up = (0, 0, 1) has only a Y component, which normalize() turns into a unit
\* vector or leaves zero.
CameraRight(o, td) ==
    IF td THEN << 0, Sgn(Sin(o.polar) * Sin(o.azimuthal)) * TrigScale, 0 >>
          ELSE << Cos(o.azimuthal), 0, -Sin(o.azimuthal) >>

\* the direction of a pan, in units of 1/TrigScale
PanDirection(direction, o, td) ==
    CASE direction = "left" -> VSub(<<0, 0, 0>>, CameraRight(o, td))
      [] direction = "right" -> CameraRight(o, td)
      [] direction = "up" -> CameraUp(td)
      [] OTHER -> VSub(<<0, 0, 0>>, CameraUp(td))

\* offset = direction * distance
PanOffset(direction, o, td) ==
    << RoundDiv(PanDirection(direction, o, td)[1] * PanDistance, TrigScale),
       RoundDiv(PanDirection(direction, o, td)[2] * PanDistance, TrigScale),
       RoundDiv(PanDirection(direction, o, td)[3] * PanDistance, TrigScale) >>

\* panCamera up to requestAnimationFrame(animate): the closure of animate
panCamera(direction) ==
    /\ rafQueue' = Append(rafQueue,
           [elapsed |-> 0,
            startPosition |-> camera.position,
            endPosition |-> VAdd(camera.position, PanOffset(direction, orbit, topDown)),
            startTarget |-> target,
            endTarget |-> VAdd(target, PanOffset(direction, orbit, topDown))])
    /\ call' = Some([op |-> "panCamera", direction |-> direction])
    /\ ret' = "none"
    /\ UNCHANGED << mounted, selectedModelIndex, camera, topDown, orbit, unmounted,
                    target >>
    /\ UNCHANGED sceneVars
    /\ UNCHANGED gestureVars
    /\ UNCHANGED saveVars

\* Vector3.lerpVectors(start, end, t) with t = Math.min(elapsed / duration, 1)
LerpVectors(start, end, elapsed) ==
    << start[1] + RoundDiv((end[1] - start[1]) * Min(elapsed, PanTicks), PanTicks),
       start[2] + RoundDiv((end[2] - start[2]) * Min(elapsed, PanTicks), PanTicks),
       start[3] + RoundDiv((end[3] - start[3]) * Min(elapsed, PanTicks), PanTicks) >>

\* one call of animate: it writes the camera's position and the pivot
animate(a, dt, pose) ==
    [position |-> LerpVectors(a.startPosition, a.endPosition, a.elapsed + dt),
     target |-> LerpVectors(a.startTarget, a.endTarget, a.elapsed + dt)]

\* a faulty frame: the callbacks run newest first
RECURSIVE RunNewestFirst(_, _, _)
RunNewestFirst(queue, dt, pose) ==
    IF queue = << >> THEN pose
    ELSE animate(queue[1], dt, RunNewestFirst(Tail(queue), dt, pose))

\* the callbacks of one frame, in the order they were requested
RECURSIVE RunCallbacks(_, _, _)
RunCallbacks(queue, dt, pose) ==
    IF queue = << >> THEN pose
    ELSE RunCallbacks(Tail(queue), dt, animate(queue[1], dt, pose))

\* if (t < 1) requestAnimationFrame(animate)
Requeued(queue, dt) ==
    LET later == [k \in 1 .. Len(queue) |-> [queue[k] EXCEPT !.elapsed = @ + dt]]
    IN  SelectSeq(later, LAMBDA a : a.elapsed < PanTicks)

\* the first frame callback of DragControls keeps the camera above the floor
AboveFloor(position) == << position[1], Max(position[2], CameraFloor), position[3] >>

\* a frame of the browser, dt ticks after the last one: the render loop with
\* the first frame callback of DragControls, then the animate callbacks
AnimationFrame(dt) ==
    /\ rafQueue # << >> \/ camera.position[2] < CameraFloor
    /\ camera' = [camera EXCEPT !.position =
           RunCallbacks(rafQueue, dt, [position |-> AboveFloor(camera.position),
                                       target |-> target]).position]
    /\ target' = RunCallbacks(rafQueue, dt, [position |-> AboveFloor(camera.position),
                                             target |-> target]).target
    /\ rafQueue' = Requeued(rafQueue, dt)
    /\ call' = Some([op |-> "animate", dt |-> dt])
    /\ ret' = "none"
    /\ UNCHANGED << mounted, selectedModelIndex, topDown, orbit, unmounted >>
    /\ UNCHANGED sceneVars
    /\ UNCHANGED gestureVars
    /\ UNCHANGED saveVars

\* OrbitControls on the top-down camera at [0, 10, 0] with up = [0, 0, 1]
TopDownOrbit == [azimuthal |-> PI, polar |-> PI \div 2, distance |-> 100]

\* the camera Cameras mounts for a view, after the first update of its controls
ViewCamera(td) ==
    IF td THEN [position |-> <<0, 100, 0>>, rotation |-> <<-15708, 0, PI>>, zoom |-> 4]
          ELSE [position |-> <<50, 50, 50>>, rotation |-> <<-7854, 6155, 5236>>,
                zoom |-> 1]

\* setTopDown(!topDown): Cameras mounts the other camera and OrbitControls is
\* built anew for it, with its pivot at the origin; the animations in flight
\* keep writing to the camera and the controls that were dropped
ToggleView ==
    /\ topDown' = ~topDown
    /\ camera' = ViewCamera(~topDown)
    /\ orbit' = IF topDown THEN InitialOrbit ELSE TopDownOrbit
    /\ target' = <<0, 0, 0>>
    /\ rafQueue' = << >>
    /\ call' = Null
    /\ ret' = "none"
    /\ UNCHANGED << mounted, selectedModelIndex, unmounted >>
    /\ UNCHANGED sceneVars
    /\ UNCHANGED gestureVars
    /\ UNCHANGED saveVars


-----------------------------------------------------------------------------
(* Persistence coordination                                                *)

\* the body of saveModelIfNeeded(index) up to the await of setDoc; resume tells
\* whether saveOnSelectionChange waits on it to assign previousSelectedIndex
\* = sel afterwards
WillSave(index) == index \in unsavedModels /\ index \in ModelIdx

IssueSave(index, resume, sel) ==
    /\ savingCount' = savingCount + 1
    /\ inflight' = inflight \cup
          { [id |-> nextSave, index |-> index,
             data |-> [path |-> PathOf(index),
                       position |-> models[index].position,
                       rotation |-> models[index].rotation],
             resume |-> resume, sel |-> sel] }
    /\ nextSave' = nextSave + 1

\* the effect on [selectedModelIndex]: saveOnSelectionChange
saveOnSelectionChange(sel) ==
    IF previousSelectedIndex # Null /\ previousSelectedIndex # sel
    THEN IF WillSave(Val(previousSelectedIndex))
         THEN /\ IssueSave(Val(previousSelectedIndex), TRUE, sel)
              /\ UNCHANGED << previousSelectedIndex, store >>
         ELSE /\ previousSelectedIndex' = sel
              /\ UNCHANGED << savingCount, inflight, nextSave, store >>
    ELSE /\ previousSelectedIndex' = sel
         /\ UNCHANGED << savingCount, inflight, nextSave, store >>

\* setSelectedModelIndex(sel) with a new value: render, then the effect
setSelectedModelIndex(sel) ==
    /\ sel # selectedModelIndex
    /\ selectedModelIndex' = sel
    /\ saveOnSelectionChange(sel)

\* a faulty counter: the finally block left out
decrementSavingCountMissing == savingCount' = savingCount

\* decrementSavingCount
decrementSavingCount == savingCount' = Max(0, savingCount - 1)

\* setDoc(docRef, data) without options: the document becomes data
setDoc(old, data) == data

\* a faulty bookkeeping: the delete moved into the finally block
DirtyAfterSaveAlways(s, ok) == unsavedModels \ {s.index}

\* unsavedModelsRef.current.delete(index) follows the awaited setDoc in the try
\* block; a rejected setDoc goes to the catch block
DirtyAfterSave(s, ok) == IF ok THEN unsavedModels \ {s.index} ELSE unsavedModels

\* setDoc settles: the rest of saveModelIfNeeded, then of saveOnSelectionChange;
\* ret tells which of the try and the catch block ran (the catch block logs)
SaveSettles(s, ok) ==
    /\ s \in inflight
    /\ inflight' = inflight \ {s}
    /\ store' = IF ok THEN [store EXCEPT ![s.index] = setDoc(@, s.data)] ELSE store
    /\ unsavedModels' = DirtyAfterSave(s, ok)
    /\ decrementSavingCount
    /\ previousSelectedIndex' = IF s.resume THEN s.sel ELSE previousSelectedIndex
    /\ UNCHANGED << models, nodes, mounted, selectedModelIndex, nextSave, camera,
                    topDown >>
    /\ call' = Some([op |-> "setDoc", index |-> s.index])
    /\ UNCHANGED << orbit, unmounted >>
    /\ ret' = IF ok THEN "saved" ELSE "logged"
    /\ UNCHANGED gestureVars

\* the models prop of the scene component's first render: useState([]) of the
\* page, which renders the scene before loadModels has answered
FirstRenderModels == << >>

\* the indices for which the first render's saveModelIfNeeded finds a model
TeardownSaves == { i \in unsavedModels : (i + 1) \in DOMAIN FirstRenderModels }

\* the cleanup of the effect with no dependencies: it calls the first render's
\* saveModelIfNeeded, whose models is the first render's prop, on every index
\* of unsavedModelsRef.current
Teardown ==
    /\ unmounted' = TRUE
    /\ inflight' = inflight \cup
          { [id |-> nextSave + i, index |-> i,
             data |-> [path |-> PathOf(i),
                       position |-> FirstRenderModels[i + 1].position,
                       rotation |-> FirstRenderModels[i + 1].rotation],
             resume |-> FALSE, sel |-> Null] : i \in TeardownSaves }
    /\ savingCount' = savingCount + Cardinality(TeardownSaves)
    /\ nextSave' = nextSave + NumModels
    /\ UNCHANGED << previousSelectedIndex, store >>
    /\ UNCHANGED << mounted, selectedModelIndex, camera, topDown, orbit >>
    /\ call' = Null
    /\ ret' = "none"
    /\ UNCHANGED sceneVars
    /\ UNCHANGED gestureVars

\* onClick of model i
ClickModel(i) ==
    /\ i \in mounted
    /\ ~dragging /\ ~rotating
    /\ setSelectedModelIndex(Some(i))
    /\ UNCHANGED << mounted, camera, topDown >>
    /\ call' = Null
    /\ UNCHANGED << orbit, unmounted >>
    /\ ret' = "none"
    /\ UNCHANGED sceneVars
    /\ UNCHANGED gestureVars

\* the suspended assets resolve: every Model mounts and its ref callback runs
ModelsLoaded ==
    /\ mounted = {}
    /\ mounted' = ModelIdx
    /\ UNCHANGED << selectedModelIndex, camera, topDown >>
    /\ call' = Null
    /\ UNCHANGED << orbit, unmounted >>
    /\ ret' = "none"
    /\ UNCHANGED sceneVars
    /\ UNCHANGED gestureVars
    /\ UNCHANGED saveVars


-----------------------------------------------------------------------------
(* Pointer handlers of DragControls                                        *)

\* raycaster.ray.intersectPlane(plane, intersection): the target keeps its
\* value when the ray does not meet the plane
Raycast == IF floorUnder = NoHit THEN intersection ELSE floorUnder

\* move: pointermove on the canvas
PointerMove(sp) ==
    /\ sp.ndc # << pointer.x, pointer.y >>
    /\ pointer' = [x |-> sp.ndc[1], y |-> sp.ndc[2],
                   xDelta |-> sp.ndc[1] - pointer.x,
                   yDelta |-> sp.ndc[2] - pointer.y]
    /\ floorUnder' = sp.floor
    /\ UNCHANGED << mounted, selectedModelIndex, dragging, rotating, intersection,
                    dragOffset, rotationTargets, camera, topDown >>
    /\ call' = Null
    /\ UNCHANGED << orbit, unmounted >>
    /\ ret' = "none"
    /\ UNCHANGED sceneVars
    /\ UNCHANGED saveVars

\* a faulty press: every button starts the gesture
PressedAny(button, own, flag) == TRUE

\* setDragging(true) under e.button === 0, setRotating(true) under
\* e.button === 1: the flag of the gesture that button own starts
Pressed(button, own, flag) == IF button = own THEN TRUE ELSE flag

\* down: pointerdown on the canvas with the given button
PointerDown(button) ==
    /\ IF selectedModelIndex = Null
       THEN UNCHANGED << selectedModelIndex, dragging, rotating, intersection,
                         dragOffset, savingCount, previousSelectedIndex, inflight,
                         nextSave, store >>
       ELSE /\ dragging' = Pressed(button, 0, dragging)
            /\ IF button = 0 /\ HasEntry(Val(selectedModelIndex))
               THEN /\ intersection' = Raycast
                    /\ dragOffset' = VSub(nodes[Val(selectedModelIndex)].position, Raycast)
               ELSE UNCHANGED << intersection, dragOffset >>
            /\ rotating' = Pressed(button, 1, rotating)
            /\ IF button = 2
               THEN setSelectedModelIndex(Null)
               ELSE UNCHANGED << selectedModelIndex, savingCount,
                                 previousSelectedIndex, inflight, nextSave, store >>
    /\ UNCHANGED << mounted, pointer, floorUnder, rotationTargets, camera, topDown >>
    /\ call' = Null
    /\ UNCHANGED << orbit, unmounted >>
    /\ ret' = "none"
    /\ UNCHANGED sceneVars

\* up: pointerup or blur on the window
PointerUp ==
    /\ dragging \/ rotating
    /\ dragging' = FALSE
    /\ rotating' = FALSE
    /\ UNCHANGED << mounted, selectedModelIndex, pointer, floorUnder, intersection,
                    dragOffset, rotationTargets, camera, topDown >>
    /\ call' = Null
    /\ UNCHANGED << orbit, unmounted >>
    /\ ret' = "none"
    /\ UNCHANGED sceneVars
    /\ UNCHANGED saveVars

\* a click on the floor with the primary button, not a drag of more than 5
\* pixels: onPointerUp of the floor mesh, and up on the window for the same
\* release
FloorClick ==
    /\ selectedModelIndex # Null
    /\ setSelectedModelIndex(Null)
    /\ dragging' = FALSE
    /\ rotating' = FALSE
    /\ UNCHANGED << mounted, pointer, floorUnder, intersection, dragOffset,
                    rotationTargets, camera, topDown >>
    /\ call' = Null
    /\ UNCHANGED << orbit, unmounted >>
    /\ ret' = "none"
    /\ UNCHANGED sceneVars

\* onPointerMissed of the canvas: a click that meets no object
PointerMissed ==
    /\ selectedModelIndex # Null
    /\ ~dragging /\ ~rotating
    /\ setSelectedModelIndex(Null)
    /\ UNCHANGED << mounted, camera, topDown >>
    /\ call' = Null
    /\ UNCHANGED << orbit, unmounted >>
    /\ ret' = "none"
    /\ UNCHANGED sceneVars
    /\ UNCHANGED gestureVars

\* the canvas is CanvasSize pixels wide and high and starts at the window's
\* corner: e.clientX and e.clientY of a pointer at normalized coordinates ndc
CanvasSize == 2 * NdcScale

ClientOf(ndc) ==
    << ((ndc[1] + NdcScale) * CanvasSize) \div (2 * NdcScale),
       ((NdcScale - ndc[2]) * CanvasSize) \div (2 * NdcScale) >>

\* the ray through the pointer meets the floor mesh (FLOOR_SIZE on a side)
OnFloor(f) == Abs(f[1]) <= FLOOR_HALF /\ Abs(f[3]) <= FLOOR_HALF

\* Math.abs(dx) > 5 || Math.abs(dy) > 5
ClickSlop == 5

Far(at, from) ==
    Abs(at[1] - from[1]) > ClickSlop \/ Abs(at[2] - from[2]) > ClickSlop

\* the primary button goes down over the floor: the canvas listener (down)
\* and the floor's onPointerDown
FloorDown ==
    /\ OnFloor(floorUnder)
    /\ PointerDown(0)
    /\ pointerDownPos' = Some(ClientOf(<< pointer.x, pointer.y >>))
    /\ draggingRef' = FALSE

\* the pointer moves: the canvas listener (move) and, when the ray meets the
\* floor, the floor's onPointerMove
FloorMove(sp) ==
    /\ PointerMove(sp)
    /\ draggingRef' = IF pointerDownPos # Null /\ OnFloor(sp.floor)
                      THEN draggingRef \/ Far(ClientOf(sp.ndc), Val(pointerDownPos))
                      ELSE draggingRef
    /\ UNCHANGED pointerDownPos

\* the primary button is released over the floor: the floor's onPointerUp and
\* the window listener (up)
FloorUp ==
    /\ OnFloor(floorUnder)
    /\ pointerDownPos # Null \/ dragging \/ rotating
    /\ IF ~draggingRef /\ selectedModelIndex # Null
       THEN setSelectedModelIndex(Null)
       ELSE UNCHANGED selectedModelIndex /\ UNCHANGED saveVars
    /\ pointerDownPos' = Null
    /\ draggingRef' = FALSE
    /\ dragging' = FALSE
    /\ rotating' = FALSE
    /\ UNCHANGED << mounted, pointer, floorUnder, intersection, dragOffset,
                    rotationTargets, camera, topDown >>
    /\ call' = Some([op |-> "onPointerUp", dragged |-> draggingRef])
    /\ UNCHANGED << orbit, unmounted >>
    /\ ret' = "none"
    /\ UNCHANGED sceneVars

-----------------------------------------------------------------------------
(* Gesture Resolver: the frame callback of DragControls                    *)

\* a faulty clamp: min and max exchanged
ClampSwapped(v) == Max(FLOOR_HALF, Min(-FLOOR_HALF, v))

\* Math.min(FLOOR_HALF, Math.max(-FLOOR_HALF, v))
Clamp(v) == Min(FLOOR_HALF, Max(-FLOOR_HALF, v))

\* a faulty easing: the interpolation factor applied to the wrong end
LerpSwapped(x, y) == RoundDiv(2 * x + 8 * y, 10)

\* THREE.MathUtils.lerp(x, y, 0.2) = 0.8 x + 0.2 y
Lerp(x, y) == RoundDiv(8 * x + 2 * y, 10)

\* xDelta * 2, from device units to angle units
RotateGain(xDelta) == (xDelta * 2 * AngScale) \div NdcScale

\* Math.abs(xDelta) > threshold, threshold = 0.001
OverThreshold(xDelta) == Abs(xDelta) * 1000 > NdcScale

\* a faulty drag branch: the outcome of the X attempt is not looked at
KeepXAlways(hitX) == TRUE

\* whether the X attempt of the drag branch is kept
KeepX(hitX) == ~hitX

\* whether the Z attempt of the drag branch is kept
KeepZ(hitZ) == ~hitZ

\* a faulty move: the world matrix is not recomputed after position.set
MovedToStale(mesh, p) == [mesh EXCEPT !.position = p]

\* mesh.position.set(x, y, z); mesh.updateMatrixWorld(true)
MovedTo(mesh, p) == updateMatrixWorld([mesh EXCEPT !.position = p])

\* const delta = to.clone().sub(from), with to = intersection + dragOffset
DragDelta(sel, hit) == VSub(VAdd(hit, dragOffset), nodes[sel].position)

\* collidesX: the box at (from.x + delta.x, from.y, from.z)
XAttempt(sel, from, delta) ==
    wouldCollide(MovedTo(nodes[sel], << from[1] + delta[1], from[2], from[3] >>), sel)

\* mesh.position.x after the X attempt
AfterX(from, delta, hitX) == IF KeepX(hitX) THEN from[1] + delta[1] ELSE from[1]

\* collidesZ: the box at (x after the X attempt, from.y, from.z + delta.z)
ZAttempt(sel, from, delta, nx) ==
    wouldCollide(MovedTo(nodes[sel], << nx, from[2], from[3] + delta[3] >>), sel)

\* mesh.position.z after the Z attempt
AfterZ(from, delta, hitZ) == IF KeepZ(hitZ) THEN from[3] + delta[3] ELSE from[3]

\* a faulty drag branch: newPos takes its height from the floor point
DragOutcomeOnFloor(from, delta, hitX, hitZ) ==
    [from |-> from, delta |-> delta, hitX |-> hitX, hitZ |-> hitZ,
     unclamped |-> << AfterX(from, delta, hitX), 0, AfterZ(from, delta, hitZ) >>,
     newPos |-> << Clamp(AfterX(from, delta, hitX)), 0,
                   Clamp(AfterZ(from, delta, hitZ)) >>]

\* what the drag branch saw, and newPos: the position after both attempts, clamped
DragOutcome(from, delta, hitX, hitZ) ==
    [from |-> from, delta |-> delta, hitX |-> hitX, hitZ |-> hitZ,
     unclamped |-> << AfterX(from, delta, hitX), from[2], AfterZ(from, delta, hitZ) >>,
     newPos |-> << Clamp(AfterX(from, delta, hitX)), from[2],
                   Clamp(AfterZ(from, delta, hitZ)) >>]

\* the Z attempt follows the X attempt
DragFromX(sel, from, delta, hitX) ==
    DragOutcome(from, delta, hitX, ZAttempt(sel, from, delta, AfterX(from, delta, hitX)))

\* the drag branch
DragResult(sel, hit) ==
    DragFromX(sel, nodes[sel].position, DragDelta(sel, hit),
              XAttempt(sel, nodes[sel].position, DragDelta(sel, hit)))

\* the rotate branch: the rotation target after accumulating the pointer delta
TargetAfterInput(sel) ==
    IF rotating /\ OverThreshold(pointer.xDelta)
    THEN Some((IF rotationTargets[sel] = Null THEN nodes[sel].rotation[2]
                                             ELSE Val(rotationTargets[sel]))
              + RotateGain(pointer.xDelta))
    ELSE rotationTargets[sel]

\* a faulty revert: the target is left beyond the obstacle
TargetKept(collision, oldY, targetY) == targetY

\* rotationTargets.current[selectedModelIndex] = oldY in the collision branch
TargetAfterStep(collision, oldY, targetY) == IF collision THEN Some(oldY) ELSE targetY

\* a faulty easing: the rotation rebuilt from the yaw alone
EasedRotationFlat(rot, targetY) ==
    << 0, IF targetY # Null THEN Lerp(rot[2], Val(targetY)) ELSE rot[2], 0 >>

\* mesh.rotation.y = lerp(oldY, targetY, 0.2) when there is a target; x and z
\* are not assigned
EasedRotation(rot, targetY) ==
    << rot[1], IF targetY # Null THEN Lerp(rot[2], Val(targetY)) ELSE rot[2], rot[3] >>

\* the end of the callback, and the render that follows it: the node, the
\* rotation target and the record after the frame
FrameCommit(sel, hit, moved, targetY, eased, collision) ==
    LET commitRot == targetY # Null /\ ~collision
        posUpd == IF dragging THEN [position |-> moved.position] ELSE << >>
        rotUpd == IF commitRot THEN [rotation |-> eased.rotation] ELSE << >>
    IN  /\ intersection' = hit
        /\ nodes' = [nodes EXCEPT ![sel] = IF commitRot THEN eased ELSE moved]
        /\ rotationTargets' = [rotationTargets EXCEPT ![sel] =
                                  TargetAfterStep(collision, moved.rotation[2], targetY)]
        /\ IF dragging \/ commitRot
           THEN /\ models' = [models EXCEPT ![sel] = Merge(Merge(@, posUpd), rotUpd)]
                /\ unsavedModels' = AddDirty(unsavedModels, sel)
           ELSE UNCHANGED << models, unsavedModels >>
        /\ pointer' = [pointer EXCEPT !.xDelta = 0, !.yDelta = 0]

\* the collision test of the eased rotation
FrameTest(sel, hit, moved, targetY, eased) ==
    FrameCommit(sel, hit, moved, targetY, eased,
                targetY # Null /\ wouldCollide(eased, sel))

\* the easing: mesh.rotation.y = lerp(oldY, targetY, 0.2) when there is a target
FrameEase(sel, hit, moved, targetY) ==
    FrameTest(sel, hit, moved, targetY,
              updateMatrixWorld([moved EXCEPT !.rotation = EasedRotation(@, targetY)]))

\* the callback on the mounted, selected model: drag branch, rotate branch, easing
FrameOn(sel) ==
    FrameEase(sel, Raycast,
              IF dragging THEN MovedTo(nodes[sel], DragResult(sel, Raycast).newPos)
                          ELSE nodes[sel],
              TargetAfterInput(sel))

\* useFrame(() => { ... }) of DragControls
Frame ==
    /\ IF selectedModelIndex = Null \/ ~HasEntry(Val(selectedModelIndex))
       THEN /\ UNCHANGED << pointer, intersection, rotationTargets >>
            /\ UNCHANGED sceneVars
       ELSE FrameOn(Val(selectedModelIndex))
    /\ UNCHANGED << mounted, selectedModelIndex, dragging, rotating, floorUnder,
                    dragOffset, camera, topDown >>
    /\ call' = Null
    /\ UNCHANGED << orbit, unmounted >>
    /\ ret' = "none"
    /\ UNCHANGED saveVars

-----------------------------------------------------------------------------
(* The system                                                              *)

Next ==
    \/ Internal(ModelsLoaded)
    \/ \E i \in CallIdx : \E u \in UpdateArgs : Event(safeUpdateModelTransform(i, u))
    \/ \E i \in CallIdx : Event(zoomToModel(i))
    \/ \E i \in CallIdx : \E a \in OrbitAngles : Event(orbitAroundModel(i, a))
    \/ \E i \in ModelIdx : Event(ClickModel(i))
    \/ \E sp \in ScreenPoints : Event(PointerMove(sp))
    \/ \E b \in 0 .. 2 : Event(PointerDown(b))
    \/ Internal(PointerUp)
    \/ Internal(Frame)
    \/ \E s \in inflight : \E ok \in BOOLEAN : Internal(SaveSettles(s, ok))
    \/ Event(Teardown)
    \/ \E zoomIn \in BOOLEAN : Event(zoomCamera(zoomIn))
    \/ \E dir \in Directions : Event(rotateCamera(dir))
    \/ \E to \in TurnStops : Event(OrbitTurn(to))
    \/ \E d \in DollyStops : Event(OrbitDolly(d))
    \/ Event(getCamera)
    \/ \E p \in CameraArgs : Event(setCamera(p))
    \/ Event(resetCamera)
    \/ Event(FloorClick)
    \/ Event(PointerMissed)
    \/ FloorEvent(FloorDown)
    \/ \E sp \in FloorPoints : FloorEvent(FloorMove(sp))
    \/ FloorInternal(FloorUp)
    \/ \E dir \in Directions : PanEvent(panCamera(dir))
    \/ \E dt \in FrameSteps : PanInternal(AnimationFrame(dt))
    \/ PanEvent(ToggleView)

Spec == Init /\ [][Next]_vars

\* the imperative API alone
NextApi ==
    \/ Internal(ModelsLoaded)
    \/ \E i \in CallIdx : \E u \in UpdateArgs : Event(safeUpdateModelTransform(i, u))
    \/ \E i \in CallIdx : Event(zoomToModel(i))
    \/ \E i \in CallIdx : \E a \in OrbitAngles : Event(orbitAroundModel(i, a))

SpecApi == Init /\ [][NextApi]_vars

\* the view: keys and buttons, mouse and wheel
NextOrbit ==
    \/ \E zoomIn \in BOOLEAN : Event(zoomCamera(zoomIn))
    \/ \E dir \in Directions : Event(rotateCamera(dir))
    \/ \E to \in TurnStops : Event(OrbitTurn(to))
    \/ \E d \in DollyStops : Event(OrbitDolly(d))

SpecOrbit == Init /\ [][NextOrbit]_vars

\* the camera pose through the scene handle, while keys and buttons move the view
NextCamera ==
    \/ Internal(ModelsLoaded)
    \/ Event(getCamera)
    \/ \E p \in CameraArgs : Event(setCamera(p))
    \/ Event(resetCamera)
    \/ \E zoomIn \in BOOLEAN : Event(zoomCamera(zoomIn))
    \/ \E dir \in Directions : Event(rotateCamera(dir))

SpecCamera == Init /\ [][NextCamera]_vars

\* the drag gesture, with the sidebar's updates
NextDrag ==
    \/ Internal(ModelsLoaded)
    \/ \E i \in ModelIdx : \E u \in DragUpdateArgs : Event(safeUpdateModelTransform(i, u))
    \/ \E i \in ModelIdx : Event(ClickModel(i))
    \/ \E sp \in ScreenPoints : Event(PointerMove(sp))
    \/ Event(PointerDown(0))
    \/ Internal(PointerUp)
    \/ Internal(Frame)

SpecDrag == Init /\ [][NextDrag]_vars

\* the easing of the selected model has come to rest (or there is none)
EasingAtRest ==
    \/ selectedModelIndex = Null
    \/ LET sel == Val(selectedModelIndex)
       IN  \/ rotationTargets[sel] = Null
           \/ Lerp(nodes[sel].rotation[2], Val(rotationTargets[sel])) = nodes[sel].rotation[2]

\* the rotate gesture; the pointer moves again once the last easing is at rest
NextRotate ==
    \/ Internal(ModelsLoaded)
    \/ \E i \in ModelIdx : Event(ClickModel(i))
    \/ \E sp \in RotatePoints : Event(PointerMove(sp) /\ EasingAtRest)
    \/ Event(PointerDown(1))
    \/ Internal(PointerUp)
    \/ Internal(Frame)

SpecRotate == Init /\ [][NextRotate]_vars

\* the gestures on a model that was lifted, tilted and put next to another
NextPose ==
    \/ Internal(ModelsLoaded)
    \/ \E u \in PoseArgs : Event(safeUpdateModelTransform(0, u))
    \/ Event(ClickModel(0))
    \/ \E sp \in ScreenPoints : Event(PointerMove(sp) /\ EasingAtRest)
    \/ \E b \in 0 .. 1 : Event(PointerDown(b))
    \/ Internal(PointerUp)
    \/ Internal(Frame)

SpecPose == Init /\ [][NextPose]_vars

\* pans of the camera, their animation frames and the view switch
NextPan ==
    \/ \E dir \in PanKeys : PanEvent(Len(rafQueue) < MaxPans /\ panCamera(dir))
    \/ \E dt \in FrameSteps : PanInternal(AnimationFrame(dt))
    \/ PanEvent(ToggleView)
    \/ Event(OrbitTurn(<<0, MaxPolarStop>>))

SpecPan == Init /\ [][NextPan]_vars

\* presses, moves and releases over the floor mesh
NextFloor ==
    \/ Internal(ModelsLoaded)
    \/ \E i \in ModelIdx : Event(ClickModel(i))
    \/ FloorEvent(FloorDown)
    \/ \E sp \in FloorPoints : FloorEvent(FloorMove(sp))
    \/ FloorInternal(FloorUp)
    \/ Event(PointerDown(2))
    \/ Event(PointerMissed)
    \/ Internal(Frame)

SpecFloor == Init /\ [][NextFloor]_vars

\* selection, the gestures it allows and the mouse on the view
NextSelect ==
    \/ Internal(ModelsLoaded)
    \/ \E i \in ModelIdx : Event(ClickModel(i))
    \/ \E b \in 0 .. 2 : Event(PointerDown(b))
    \/ Internal(PointerUp)
    \/ Event(FloorClick)
    \/ Event(PointerMissed)
    \/ \E to \in TurnStops : Event(OrbitTurn(to))
    \/ \E d \in DollyStops : Event(OrbitDolly(d))

SpecSelect == Init /\ [][NextSelect]_vars

\* selection changes and the saves they start
NextSave ==
    \/ Internal(ModelsLoaded)
    \/ \E i \in ModelIdx : \E u \in UpdateArgs : Event(safeUpdateModelTransform(i, u))
    \/ \E i \in ModelIdx : Event(ClickModel(i))
    \/ Event(PointerDown(2))
    \/ \E s \in inflight : \E ok \in BOOLEAN : Internal(SaveSettles(s, ok))
    \/ Event(Teardown)

SpecSave == Init /\ [][NextSave]_vars

\* stops of the pointer along X while the left model is dragged by +3 in all:
\* the press is at the floor point (0,0,0), the last stop at (3,0,0)
ContactStops == {3, 5, 7, 8, 10, 20, 30}

ContactPath == { [ndc |-> <<20 * x, 0>>, floor |-> <<x, 0, 0>>] : x \in ContactStops }

\* the contact-stop scenario: the left model is pressed and the pointer travels
\* along +X, any number of stops between two frames
NextContact ==
    \/ Internal(ModelsLoaded)
    \/ Event(ClickModel(0))
    \/ Event(PointerDown(0))
    \/ \E sp \in ContactPath :
          Internal(PointerMove(sp) /\ dragging /\ sp.floor[1] > floorUnder[1])
    \/ Internal(PointerUp)
    \/ Internal(Frame)

SpecContact == Init /\ [][NextContact]_vars

-----------------------------------------------------------------------------
(* Properties                                                              *)

\* the pose safeUpdateModelTransform(i, u) proposes for model i
PoseAfter(i, u) ==
    [position |-> IF "position" \in DOMAIN u THEN u.position ELSE nodes[i].position,
     rotation |-> IF "rotation" \in DOMAIN u THEN u.rotation ELSE nodes[i].rotation]

\* model i, put in the given pose, meets the box of another mounted model
Overlaps(i, pose) ==
    \E j \in mounted \ {i} :
        intersectsOBB(getUpdatedOBB(NodeOf(pose)), getUpdatedOBB(nodes[j]))

\* the last operation was op on index i
Called(op, i) == call = Some([op |-> op, index |-> i])

\* C1: no two mounted models' world boxes intersect, after any sequence of drag
\* frames, rotate frames and safeUpdateModelTransform calls. The drag frame
\* clamps the accepted position after its collision tests, and the clamped
\* position is committed untested.
C1_NoOverlap ==
    \A i \in mounted : \A j \in mounted \ {i} :
        ~intersectsOBB(getUpdatedOBB(nodes[i]), getUpdatedOBB(nodes[j]))

\* C2: safeUpdateModelTransform on a mounted index whose proposed pose meets
\* another mounted model returns false and leaves the node, the record and the
\* dirty set as they were.
C2_CollisionRejected ==
    [][\A i \in ModelIdx : \A u \in UpdateArgs :
          (/\ i \in mounted
           /\ Overlaps(i, PoseAfter(i, u))
           /\ safeUpdateModelTransform(i, u))
          => (/\ ret' = "false"
              /\ nodes' = nodes
              /\ models' = models
              /\ unsavedModels' = unsavedModels)]_vars

\* C2: a call on mounted model 1 was refused, and nothing is dirty
C2_Witness ==
    /\ Called("safeUpdateModelTransform", 1)
    /\ 1 \in mounted
    /\ ret = "false"
    /\ nodes[1].position = InitialScene[2].position
    /\ unsavedModels = {}

\* C3: safeUpdateModelTransform on a mounted index whose proposed pose meets no
\* other mounted model returns true, the node keeps the proposed pose, the
\* record takes exactly the supplied fields, and the index becomes dirty.
C3_ClearCommitted ==
    [][\A i \in ModelIdx : \A u \in UpdateArgs :
          (/\ i \in mounted
           /\ ~Overlaps(i, PoseAfter(i, u))
           /\ safeUpdateModelTransform(i, u))
          => (/\ ret' = "true"
              /\ nodes'[i].position = PoseAfter(i, u).position
              /\ nodes'[i].rotation = PoseAfter(i, u).rotation
              /\ models'[i] =
                    [position |-> IF "position" \in DOMAIN u THEN u.position
                                                             ELSE models[i].position,
                     rotation |-> IF "rotation" \in DOMAIN u THEN u.rotation
                                                             ELSE models[i].rotation]
              /\ \A j \in ModelIdx \ {i} : models'[j] = models[j] /\ nodes'[j] = nodes[j]
              /\ unsavedModels' = unsavedModels \cup {i})]_vars

\* C3: a call that supplied only a rotation went through on model 0: the record
\* has the new rotation and the position it had
C3_Witness ==
    /\ Called("safeUpdateModelTransform", 0)
    /\ ret = "true"
    /\ models[0].rotation = <<0, 7854, 0>>
    /\ models[0].position = InitialScene[1].position
    /\ nodes[0].rotation = models[0].rotation
    /\ 0 \in unsavedModels

\* C4: on an index outside [0, modelCount) or without a mounted entry,
\* safeUpdateModelTransform, zoomToModel and orbitAroundModel return false, do
\* not raise, and leave nodes, records, dirty set and camera unchanged.
C4_BadIndexIsFalse ==
    [][\A i \in CallIdx :
          (/\ i < 0 \/ i >= NumModels \/ i \notin mounted
           /\ \/ \E u \in UpdateArgs : safeUpdateModelTransform(i, u)
              \/ zoomToModel(i)
              \/ \E a \in OrbitAngles : orbitAroundModel(i, a))
          => (/\ ret' = "false"
              /\ nodes' = nodes
              /\ models' = models
              /\ unsavedModels' = unsavedModels
              /\ camera' = camera)]_vars

\* C4: zoomToModel was called with a negative index while the models are mounted
C4_Witness ==
    /\ Called("zoomToModel", -1)
    /\ mounted = ModelIdx
    /\ ret = "false"

\* C7: every model's position has -FLOOR_HALF <= X <= FLOOR_HALF and
\* -FLOOR_HALF <= Z <= FLOOR_HALF after any sequence of drag frames and
\* safeUpdateModelTransform calls. safeUpdateModelTransform does not clamp.
C7_InsideFloor ==
    \A i \in ModelIdx :
        /\ Abs(nodes[i].position[1]) <= FLOOR_HALF
        /\ Abs(nodes[i].position[3]) <= FLOOR_HALF
        /\ Abs(models[i].position[1]) <= FLOOR_HALF
        /\ Abs(models[i].position[3]) <= FLOOR_HALF

\* the position the pointer asks for in a drag frame of model sel
DragTo(sel) == VAdd(Raycast, dragOffset)

\* a drag frame of the mounted, selected model sel
DragFrame(sel) ==
    /\ selectedModelIndex = Some(sel)
    /\ sel \in mounted
    /\ dragging
    /\ Frame

\* model sel at position p with the rotation it has
PoseAt(sel, p) == [position |-> p, rotation |-> nodes[sel].rotation]

\* the frame's delta overlaps another model when applied in X alone, and does
\* not when applied in Z alone from the unchanged X
SlidesAlongZ(sel) ==
    LET from == nodes[sel].position
        to == DragTo(sel)
    IN  /\ to[1] # from[1]
        /\ to[3] # from[3]
        /\ Overlaps(sel, PoseAt(sel, << to[1], from[2], from[3] >>))
        /\ ~Overlaps(sel, PoseAt(sel, << from[1], from[2], to[3] >>))

\* C5 as stated: in a drag frame whose delta overlaps in X alone and not in Z
\* alone, the committed position has Z changed by dz and X unchanged.
C5_SlideUnclamped ==
    [][\A sel \in ModelIdx :
          (SlidesAlongZ(sel) /\ DragFrame(sel))
          => nodes'[sel].position =
                << nodes[sel].position[1], nodes[sel].position[2], DragTo(sel)[3] >>]_vars

\* C5: in a drag frame whose delta overlaps in X alone and not in Z alone, the
\* X attempt is dropped and the Z attempt kept, and the committed position is
\* the result clamped to the floor: (clamp(X), Y, clamp(Z + dz)).
C5_SlideClamped ==
    [][\A sel \in ModelIdx :
          (SlidesAlongZ(sel) /\ DragFrame(sel))
          => /\ nodes'[sel].position =
                   << Min(FLOOR_HALF, Max(-FLOOR_HALF, nodes[sel].position[1])),
                      nodes[sel].position[2],
                      Min(FLOOR_HALF, Max(-FLOOR_HALF, DragTo(sel)[3])) >>
             /\ models'[sel].position = nodes'[sel].position]_vars

\* C5: the pointer asked model 0 for (0, 0, 0.5), next to model 1; the frame
\* left it at X = -1 and moved it to Z = 0.5
C5_Witness ==
    /\ dragging
    /\ selectedModelIndex = Some(0)
    /\ 0 \in mounted
    /\ intersection = <<0, 0, 5>>
    /\ dragOffset = <<0, 0, 0>>
    /\ nodes[1].position = InitialScene[2].position
    /\ nodes[0].position = <<-10, 0, 5>>
    /\ models[0].position = <<-10, 0, 5>>

\* the X at which the left model's box touches the right model's box
ContactX == nodes[1].position[1] - 2 * HalfSize[1]

\* the whole drag of +3 has been delivered and a frame has run on it
DragDelivered ==
    /\ dragging
    /\ selectedModelIndex = Some(0)
    /\ 0 \in mounted
    /\ dragOffset = InitialScene[1].position
    /\ floorUnder = <<3 * PosScale, 0, 0>>
    /\ intersection = floorUnder
    /\ pointer.xDelta = 0

\* "approximately": within a tenth of a scene unit
ApproxTol == PosScale \div 10

\* C6 as stated: after the drag of +3 in X the left model is at X approximately
\* -0.2, the contact distance from the right model.
C6_EndsAtContact ==
    DragDelivered => Abs(nodes[0].position[1] - ContactX) <= ApproxTol

\* C6: during and after the drag of +3 in X the left model never touches the
\* right model, never reaches X = 2 and never gets to its far side: each frame
\* either commits the X the pointer asks for or, if the box there would touch or
\* overlap the right model, leaves X where it was (a drag delivered in one
\* frame leaves the model at X = -1).
C6_StopsShortOfContact ==
    /\ [](/\ nodes[0].position[1] >= InitialScene[1].position[1]
          /\ nodes[0].position[1] < ContactX
          /\ nodes[0].position[3] = InitialScene[1].position[3])
    /\ [][DragFrame(0)
          => nodes'[0].position[1] =
               IF DragTo(0)[1] < ContactX THEN DragTo(0)[1]
                                          ELSE nodes[0].position[1]]_vars

\* C6: the drag of +3 is delivered and the left model has stopped at X = -0.3,
\* the last stop of the pointer before contact
C6_Witness ==
    /\ DragDelivered
    /\ nodes[0].position[1] = ContactX - 1
    /\ models[0].position[1] = ContactX - 1

\* how far beyond the floor extent the clamp is probed
ClampMargin == 20

\* <<clamp(x), y, clamp(z)>>
ClampXZ(p) == << Clamp(p[1]), p[2], Clamp(p[3]) >>

\* C8: the floor clamp is idempotent, clamp(clamp(p)) = clamp(p), and leaves
\* every p inside the floor extent as it is: for every coordinate up to
\* ClampMargin beyond the extent, for the position the pointer asks for in the
\* next drag frame, and for the position a node has.
C8_ClampIdempotent ==
    /\ \A v \in -(FLOOR_HALF + ClampMargin) .. (FLOOR_HALF + ClampMargin) :
          /\ Clamp(Clamp(v)) = Clamp(v)
          /\ (-FLOOR_HALF <= v /\ v <= FLOOR_HALF) => Clamp(v) = v
    /\ \A sel \in ModelIdx :
          \A p \in {DragTo(sel), nodes[sel].position} :
              /\ ClampXZ(ClampXZ(p)) = ClampXZ(p)
              /\ (Abs(p[1]) <= FLOOR_HALF /\ Abs(p[3]) <= FLOOR_HALF) => ClampXZ(p) = p

\* C8: a drag frame clamped model 0: the pointer asks for an X beyond the
\* floor, and the model is at the edge
C8_Witness ==
    /\ dragging
    /\ selectedModelIndex = Some(0)
    /\ 0 \in mounted
    /\ intersection = floorUnder
    /\ DragTo(0)[1] > FLOOR_HALF
    /\ nodes[0].position[1] = FLOOR_HALF
    /\ pointer.xDelta = 0

\* the tolerance 1e-3 rad
EaseTol == AngScale \div 1000

\* frames within which the yaw is to be within EaseTol of a fixed target
EaseFrames == 40

\* the yaw after n frames of easing towards the fixed target t
RECURSIVE EaseN(_, _, _)
EaseN(y, t, n) ==
    IF n = 0
    THEN y
    ELSE LET next == Lerp(y, t)
             left == n - 1
         IN  IF next = t \/ left = 0 THEN next ELSE EaseN(next, t, left)

\* a frame that eases the selected model sel towards a target that no rotate
\* input moves, with no collision at the eased yaw
EaseFrame(sel) ==
    /\ selectedModelIndex = Some(sel)
    /\ sel \in mounted
    /\ rotationTargets[sel] # Null
    /\ ~(rotating /\ OverThreshold(pointer.xDelta))
    /\ ~Overlaps(sel, [position |-> nodes[sel].position,
                       rotation |-> << nodes[sel].rotation[1],
                                       Lerp(nodes[sel].rotation[2],
                                            Val(rotationTargets[sel])),
                                       nodes[sel].rotation[3] >>])
    /\ ~dragging
    /\ Frame

\* C9: with a fixed rotation target and no collision a frame replaces the yaw
\* by yaw + 0.2 * (target - yaw) (to the nearest 1e-4 rad), so the distance to
\* the target shrinks by the factor 0.8, the target stays, and EaseFrames
\* frames bring the yaw within 1e-3 rad of the target.
C9_EasingConverges ==
    /\ [][\A sel \in ModelIdx :
             EaseFrame(sel)
             => LET t == Val(rotationTargets[sel])
                    y == nodes[sel].rotation[2]
                    y2 == nodes'[sel].rotation[2]
                IN  /\ Abs(10 * y2 - (8 * y + 2 * t)) <= 5
                    /\ 10 * Abs(t - y2) <= 8 * Abs(t - y) + 5
                    /\ rotationTargets'[sel] = rotationTargets[sel]]_vars
    /\ [](\A sel \in ModelIdx :
             rotationTargets[sel] # Null
             => Abs(EaseN(nodes[sel].rotation[2], Val(rotationTargets[sel]), EaseFrames)
                    - Val(rotationTargets[sel])) <= EaseTol)

\* C9: model 0 was rotated by a gesture and its yaw has come within 1e-3 rad
\* of the target
C9_Witness ==
    /\ selectedModelIndex = Some(0)
    /\ 0 \in mounted
    /\ rotationTargets[0] # Null
    /\ Abs(Val(rotationTargets[0])) > 10 * EaseTol
    /\ nodes[0].rotation[2] # Val(rotationTargets[0])
    /\ Abs(nodes[0].rotation[2] - Val(rotationTargets[0])) <= EaseTol
    /\ models[0].rotation = nodes[0].rotation
    /\ pointer.xDelta = 0

\* C10: when the selection changes from a model A in the dirty set to a model
\* B, exactly one persistence call is issued, and it is for A. The comparison
\* is with previousSelectedIndex, which is still the model before A while an
\* earlier flush awaits its save.
C10_FlushOnSwitch ==
    [][\A a \in ModelIdx : \A b \in ModelIdx \ {a} :
          (/\ selectedModelIndex = Some(a)
           /\ selectedModelIndex' = Some(b)
           /\ a \in unsavedModels)
          => (/\ Cardinality(inflight' \ inflight) = 1
              /\ \A s \in inflight' \ inflight : s.index = a)]_vars

\* C11: every change of the selection away from a model that is in the dirty
\* set, a deselection included, issues a persistence call for that model, also
\* while an earlier flush still awaits its save. The tracked previous index is
\* assigned only after that await, so a change that arrives meanwhile is
\* compared with the model before the last one.
C11_EveryChangeFlushes ==
    [][\A a \in ModelIdx :
          (/\ selectedModelIndex = Some(a)
           /\ selectedModelIndex' # selectedModelIndex
           /\ a \in unsavedModels)
          => \E s \in inflight' \ inflight : s.index = a]_vars

\* C12: when the scene component is torn down, a persistence call carrying the
\* model's current transform is issued for every index of the dirty set. The
\* cleanup runs the first render's closure, which sees no model at any index.
C12_TeardownFlushes ==
    [][(~unmounted /\ unmounted')
          => \A i \in unsavedModels :
                \E s \in inflight' \ inflight :
                    /\ s.index = i
                    /\ s.data.position = models[i].position
                    /\ s.data.rotation = models[i].rotation]_vars

\* C13: a persistence call removes its index from the dirty set only when the
\* write succeeds. When the write fails the error is logged and nothing is
\* thrown, the dirty set and the store stay as they were, no new save is
\* started, and the handlers stay as ready as they were.
C13_FailureLeavesDirty ==
    [][/\ \A i \in unsavedModels \ unsavedModels' :
            call' = Some([op |-> "setDoc", index |-> i]) /\ ret' = "saved"
       /\ (ret' = "logged")
             => /\ unsavedModels' = unsavedModels
                /\ store' = store
                /\ inflight' \subseteq inflight
                /\ Cardinality(inflight') = Cardinality(inflight) - 1
                /\ selectedModelIndex' = selectedModelIndex
                /\ mounted' = mounted /\ unmounted' = unmounted
                /\ dragging' = dragging /\ rotating' = rotating]_vars

\* a write for model 0 has failed, no other is in flight, and the store still
\* has the loaded document while the memory has the edited transform
C13_Witness ==
    /\ Called("setDoc", 0) /\ ret = "logged"
    /\ inflight = {}
    /\ 0 \in unsavedModels
    /\ store[0] = RemoteDocs[0]
    /\ models[0].position # RemoteDocs[0].position

\* C14: the saving counter is never negative and equals the number of
\* persistence calls issued and not yet settled, so it is 0 when none is in
\* flight.
C14_CounterIsInflight ==
    /\ savingCount >= 0
    /\ savingCount = Cardinality(inflight)

\* two saves overlapped and one of them has settled
C14_Witness ==
    /\ ret \in {"saved", "logged"}
    /\ savingCount = 1
    /\ Cardinality(inflight) = 1

\* C15: when a model's transform was committed while a save for its index was
\* in flight and that save then succeeds, the index is still in the dirty set.
\* The success path deletes the index whatever happened during the await.
C15_EditDuringSaveStaysDirty ==
    [][\A s \in inflight \ inflight' :
          (/\ ret' = "saved"
           /\ \/ models[s.index].position # s.data.position
              \/ models[s.index].rotation # s.data.rotation)
          => s.index \in unsavedModels']_vars

\* C16: whenever a model's index is not in the dirty set and no save for it is
\* in flight, the store has the position and rotation of the model's record.
C16_StoreMatchesMemory ==
    \A i \in ModelIdx :
        (i \notin unsavedModels /\ ~(\E s \in inflight : s.index = i))
        => /\ store[i].position = models[i].position
           /\ store[i].rotation = models[i].rotation

\* C17: a successful persistence call leaves every field of the remote record
\* other than path, position and rotation as it was. The write is a setDoc
\* without the merge option, which replaces the document.
C17_SavePreservesOtherFields ==
    [][\A i \in ModelIdx :
          (call' = Some([op |-> "setDoc", index |-> i]) /\ ret' = "saved")
          => \A f \in DOMAIN store[i] \ {"path", "position", "rotation"} :
                f \in DOMAIN store'[i] /\ store'[i][f] = store[i][f]]_vars

\* C18: rotateCamera("left") increases the azimuthal angle by the step, modulo
\* a full turn, and leaves the polar angle as it is; "right" decreases it by
\* the step. The code subtracts the step for "left" and adds it for "right".
C18_LeftAddsStep ==
    [][/\ (call' = Some([op |-> "rotateCamera", direction |-> "left"]))
             => /\ orbit'.azimuthal = WrapAngle(orbit.azimuthal + AngleStep)
                /\ orbit'.polar = orbit.polar
       /\ (call' = Some([op |-> "rotateCamera", direction |-> "right"]))
             => /\ orbit'.azimuthal = WrapAngle(orbit.azimuthal - AngleStep)
                /\ orbit'.polar = orbit.polar]_vars

\* the last operation was zoomCamera(zoomIn)
Zoomed(zoomIn) == call = Some([op |-> "zoomCamera", zoomIn |-> zoomIn])

\* the distance is at the limit that zoomCamera(zoomIn) moves towards
AtLimit(zoomIn) == orbit.distance = IF zoomIn THEN MinDistance ELSE MaxDistance

\* C19, as stated: after zoomCamera the distance lies in [minDistance,
\* maxDistance]; at the limit the distance and the camera position are left
\* as they are; otherwise the distance changes by exactly the step along the
\* unchanged view direction.
C19_ZoomExactStep ==
    [][\A zoomIn \in BOOLEAN :
          Zoomed(zoomIn)'
          => /\ orbit'.distance \in MinDistance .. MaxDistance
             /\ orbit'.azimuthal = orbit.azimuthal /\ orbit'.polar = orbit.polar
             /\ AtLimit(zoomIn) => (orbit' = orbit /\ camera' = camera)
             /\ ~AtLimit(zoomIn) => Abs(orbit'.distance - orbit.distance) = ZoomStep]_vars

\* C19, amended: after zoomCamera the distance lies in [minDistance,
\* maxDistance]; at the limit the distance and the camera position are left
\* as they are; otherwise the distance moves towards the limit by the step or
\* by what is left up to the limit, whichever is smaller, along the unchanged
\* view direction.
C19_ZoomClamped ==
    [][\A zoomIn \in BOOLEAN :
          Zoomed(zoomIn)'
          => /\ orbit'.distance \in MinDistance .. MaxDistance
             /\ orbit'.azimuthal = orbit.azimuthal /\ orbit'.polar = orbit.polar
             /\ AtLimit(zoomIn) => (orbit' = orbit /\ camera' = camera)
             /\ orbit'.distance - orbit.distance =
                   IF zoomIn THEN -Min(ZoomStep, orbit.distance - MinDistance)
                             ELSE Min(ZoomStep, MaxDistance - orbit.distance)
             /\ camera'.position = FromSpherical(orbit')]_vars

\* a zoom-in has ended at the minimum distance
C19_Witness ==
    /\ Zoomed(TRUE)
    /\ orbit.distance = MinDistance
    /\ camera.position = FromSpherical(orbit)

\* C20: whenever zoomToModel(index) returns true the camera is at the fixed
\* offset from the model's world center, (center.x, 10, center.z) with zoom 4
\* in the top-down view and center + (5, 5, 5) otherwise; whenever
\* orbitAroundModel(index, angle) returns true the camera is at
\* center + (5 cos angle, 2.5, 5 sin angle). The pose is handed to a ref that
\* is never attached.
C20_CameraAtOffset ==
    [][\A i \in ModelIdx :
          /\ (Called("zoomToModel", i)' /\ ret' = "true")
                => IF topDown
                   THEN /\ camera'.position = << getWorldCenter(nodes[i])[1], 10 * PosScale,
                                                 getWorldCenter(nodes[i])[3] >>
                        /\ camera'.zoom = 4
                   ELSE camera'.position =
                           VAdd(getWorldCenter(nodes[i]),
                                << 5 * PosScale, 5 * PosScale, 5 * PosScale >>)
          /\ (Called("orbitAroundModel", i)' /\ ret' = "true")
                => \E a \in OrbitAngles :
                      camera'.position =
                         VAdd(getWorldCenter(nodes[i]),
                              << RoundDiv(5 * PosScale * Cos(a), TrigScale),
                                 (5 * PosScale) \div 2,
                                 RoundDiv(5 * PosScale * Sin(a), TrigScale) >>)]_vars

\* C21: getCamera() returns the current pose and does not raise; after
\* setCamera(partial) the camera has the supplied fields and keeps the others;
\* after resetCamera() it is at (5, 5, 5) with rotation (0, 0, 0) and zoom 1.
\* The three go through a ref that is never attached: getCamera throws and
\* the other two do nothing.
C21_CameraRoundTrip ==
    [][/\ (call' # Null /\ call'[1].op = "getCamera")
             => /\ ret' # "Error"
                /\ call'[1].pose = Some(camera)
       /\ \A p \in CameraArgs :
             (call' = Some([op |-> "setCamera", params |-> p]))
             => camera' = Merge(camera, p)
       /\ (call' = Some([op |-> "resetCamera"])) => camera' = ResetPose]_vars

\* C22: the interactive orbit control is enabled exactly when no model is
\* selected: the mouse turns or dollies the view only in a state without a
\* selection, and every step that deselects leaves the control enabled.
C22_OrbitIffUnselected ==
    /\ [](orbitEnabled <=> selectedModelIndex = Null)
    /\ [][/\ (\/ \E to \in TurnStops : OrbitTurn(to)
              \/ \E d \in DollyStops : OrbitDolly(d))
                => selectedModelIndex = Null
          /\ (selectedModelIndex # Null /\ selectedModelIndex' = Null)
                => orbitEnabled']_vars

\* the view was turned with the mouse, and a model is selected now
C22_Witness ==
    /\ selectedModelIndex # Null
    /\ ~orbitEnabled
    /\ orbit # InitialOrbit

\* C29: with a model selected a primary-button press sets dragging and a
\* middle-button press sets rotating, each leaving the other flag as it was;
\* with no model selected a press changes neither; a release, a window blur or
\* the release that ends a floor click leaves both false.
C29_GestureMachine ==
    [][/\ \A b \in 0 .. 2 :
             PointerDown(b)
             => IF selectedModelIndex = Null
                THEN dragging' = dragging /\ rotating' = rotating
                ELSE /\ dragging' = (dragging \/ b = 0)
                     /\ rotating' = (rotating \/ b = 1)
       /\ (PointerUp \/ FloorClick) => (~dragging' /\ ~rotating')]_vars

\* a middle-button press on a selected model started the rotate gesture
C29_Witness ==
    /\ selectedModelIndex # Null
    /\ rotating
    /\ ~dragging

\* C30: right after every change of the selection made while a drag or a
\* rotate gesture is active, dragging and rotating are false. The secondary
\* click deselects and leaves both flags as they are.
C30_SelectionEndsGesture ==
    [][(selectedModelIndex' # selectedModelIndex /\ (dragging \/ rotating))
          => (~dragging' /\ ~rotating')]_vars

\* C23: a rejected attempt writes no record and marks nothing dirty: a drag
\* frame (without easing) in which both the X and the Z attempt are rejected,
\* or in which the pointer asks for no move along X and Z, leaves the records
\* and the dirty set as they were. The drag branch ends with updateModelState
\* whatever the attempts gave.
C23_RejectedWritesNothing ==
    [][\A sel \in ModelIdx :
          (/\ DragFrame(sel)
           /\ TargetAfterInput(sel) = Null
           /\ \/ DragResult(sel, Raycast).hitX /\ DragResult(sel, Raycast).hitZ
              \/ DragDelta(sel, Raycast)[1] = 0 /\ DragDelta(sel, Raycast)[3] = 0)
          => (models' = models /\ unsavedModels' = unsavedModels)]_vars

\* C24: an index is in the dirty set only if the position or the rotation of
\* its record differs from what the store last took for it (the loaded
\* document, or the last successful save). updateModelState adds the index
\* without comparing the update with the record.
C24_DirtyMeansDiffers ==
    \A i \in unsavedModels :
        \/ models[i].position # store[i].position
        \/ models[i].rotation # store[i].rotation

\* a frame of the selected model with no drag going on
RotateFrame(sel) ==
    /\ selectedModelIndex = Some(sel)
    /\ sel \in mounted
    /\ ~dragging
    /\ Frame

\* the pose the easing step of this frame puts to the collision test
YawStep(sel) ==
    [position |-> nodes[sel].position,
     rotation |-> EasedRotation(nodes[sel].rotation, TargetAfterInput(sel))]

\* C25: when the yaw step of a frame collides, the node's yaw is put back, the
\* rotation target becomes the yaw the node had, and nothing is written to the
\* record or the dirty set; a later frame with no new rotate input then
\* leaves the yaw where it is.
C25_CollidingYawReverted ==
    [][\A sel \in ModelIdx :
          /\ (/\ RotateFrame(sel)
              /\ TargetAfterInput(sel) # Null
              /\ Overlaps(sel, YawStep(sel)))
             => /\ nodes'[sel] = nodes[sel]
                /\ rotationTargets'[sel] = Some(nodes[sel].rotation[2])
                /\ models' = models
                /\ unsavedModels' = unsavedModels
          /\ (/\ RotateFrame(sel)
              /\ rotationTargets[sel] = Some(nodes[sel].rotation[2])
              /\ ~(rotating /\ OverThreshold(pointer.xDelta)))
             => nodes'[sel].rotation = nodes[sel].rotation]_vars

\* a yaw stopped short of every target a gesture could have set
C25_Witness ==
    /\ selectedModelIndex = Some(0)
    /\ rotating
    /\ rotationTargets[0] = Some(nodes[0].rotation[2])
    /\ nodes[0].rotation[2] # 0
    /\ Overlaps(0, [position |-> nodes[0].position,
                    rotation |-> << nodes[0].rotation[1],
                                    nodes[0].rotation[2] + (nodes[0].rotation[2] \div 2),
                                    nodes[0].rotation[3] >>])

\* C26: a drag frame keeps the height: the node's Y and the record's Y after
\* the frame are the node's Y before it.
C26_DragKeepsHeight ==
    [][\A sel \in ModelIdx :
          DragFrame(sel)
          => /\ nodes'[sel].position[2] = nodes[sel].position[2]
             /\ models'[sel].position[2] = nodes[sel].position[2]]_vars

\* a lifted model that a drag has moved along the floor
C26_Witness ==
    /\ selectedModelIndex = Some(0)
    /\ dragging
    /\ nodes[0].position[2] = 5
    /\ nodes[0].position[1] # -3
    /\ models[0].position = nodes[0].position

\* C27: a frame with no drag changes the yaw only: the position, the pitch
\* and the roll of the node and of the record stay, and no other model is
\* touched.
C27_OnlyYawChanges ==
    [][\A sel \in ModelIdx :
          RotateFrame(sel)
          => /\ nodes'[sel].position = nodes[sel].position
             /\ nodes'[sel].rotation[1] = nodes[sel].rotation[1]
             /\ nodes'[sel].rotation[3] = nodes[sel].rotation[3]
             /\ models'[sel].position = models[sel].position
             /\ models'[sel].rotation[1] = models[sel].rotation[1]
             /\ models'[sel].rotation[3] = models[sel].rotation[3]
             /\ \A j \in ModelIdx \ {sel} :
                   models'[j] = models[j] /\ nodes'[j] = nodes[j]]_vars

\* a tilted model whose yaw a rotate gesture has turned and committed
C27_Witness ==
    /\ selectedModelIndex = Some(0)
    /\ ~dragging
    /\ nodes[0].rotation[1] = 1000
    /\ nodes[0].rotation[3] = 500
    /\ nodes[0].rotation[2] # 0
    /\ models[0].rotation = nodes[0].rotation

\* C28: after every frame the accumulated pointer deltas are zero, whatever
\* the frame did, also when no model is selected or the selected model has no
\* mounted node.
C28_FrameResetsDeltas ==
    [][Internal(Frame) => (pointer'.xDelta = 0 /\ pointer'.yDelta = 0)]_vars

\* the pointer is more than ClickSlop pixels from the floor press, in X or in Y
MovedAway(ptr) ==
    LET at == << ptr.x + NdcScale, NdcScale - ptr.y >>
        from == Val(pointerDownPos)
    IN  \/ at[1] - from[1] > 5 \/ from[1] - at[1] > 5
        \/ at[2] - from[2] > 5 \/ from[2] - at[2] > 5

\* C31: a press and release of the primary button on the floor deselects when
\* the pointer never went more than 5 pixels from the press, and leaves the
\* selection alone when it did; a press of the secondary button and a missed
\* click deselect whenever a model is selected.
C31_FloorClickVsDrag ==
    [][/\ (pointerDownPos # Null /\ pointerDownPos' # Null /\ MovedAway(pointer'))
          => draggingRef'
       /\ FloorDown => ~draggingRef'
       /\ (FloorUp /\ pointerDownPos # Null /\ selectedModelIndex # Null)
          => IF draggingRef THEN selectedModelIndex' = selectedModelIndex
                            ELSE selectedModelIndex' = Null
       /\ (PointerDown(2) /\ selectedModelIndex # Null) => selectedModelIndex' = Null
       /\ (PointerMissed /\ selectedModelIndex # Null) => selectedModelIndex' = Null]_vars

\* C32: the offset taken at the press is the model's position minus the floor
\* point under the pointer; a drag frame whose pointer still is where it was
\* pressed has a zero delta and leaves the position alone; a frame that
\* accepts both attempts puts the model at the floor point plus the offset.
C32_GrabPointKept ==
    [][\A sel \in ModelIdx :
          /\ (PointerDown(0) /\ selectedModelIndex = Some(sel) /\ sel \in mounted)
             => /\ dragOffset' = VSub(nodes[sel].position, Raycast)
                /\ VSub(VAdd(Raycast, dragOffset'), nodes[sel].position) = <<0, 0, 0>>
          /\ (DragFrame(sel) /\ DragDelta(sel, Raycast) = <<0, 0, 0>>)
             => /\ nodes'[sel].position = nodes[sel].position
                /\ models'[sel].position = nodes[sel].position
          /\ (/\ DragFrame(sel)
              /\ ~DragResult(sel, Raycast).hitX
              /\ ~DragResult(sel, Raycast).hitZ
              /\ DragResult(sel, Raycast).newPos = DragResult(sel, Raycast).unclamped)
             => /\ nodes'[sel].position[1] = Raycast[1] + dragOffset[1]
                /\ nodes'[sel].position[3] = Raycast[3] + dragOffset[3]]_vars

\* C33: the polar angle stays within [0, pi/2] whatever rotateCamera calls
\* are made; "up" at the minimum and "down" at the maximum leave it where it
\* is, and "up" and "down" never change the azimuthal angle.
C33_PolarWithinLimits ==
    /\ [](0 <= orbit.polar /\ orbit.polar <= PI \div 2)
    /\ [][/\ (call' = Some([op |-> "rotateCamera", direction |-> "up"]))
                => /\ orbit'.azimuthal = orbit.azimuthal
                   /\ orbit'.polar = IF orbit.polar - AngleStep < 0
                                     THEN 0 ELSE orbit.polar - AngleStep
                   /\ orbit.polar = 0 => orbit'.polar = orbit.polar
          /\ (call' = Some([op |-> "rotateCamera", direction |-> "down"]))
                => /\ orbit'.azimuthal = orbit.azimuthal
                   /\ orbit'.polar = IF orbit.polar + AngleStep > PI \div 2
                                     THEN PI \div 2 ELSE orbit.polar + AngleStep
                   /\ orbit.polar = PI \div 2 => orbit'.polar = orbit.polar]_vars

\* a "down" step that ended at the maximum
C33_Witness ==
    /\ call = Some([op |-> "rotateCamera", direction |-> "down"])
    /\ orbit.polar = PI \div 2
    /\ orbit.azimuthal # InitialOrbit.azimuthal

\* the step is a frame of the browser, dt ticks after the last one
Animated(dt) == call' = Some([op |-> "animate", dt |-> dt])

\* the step is a call of panCamera
Panned(dir) == call' = Some([op |-> "panCamera", direction |-> dir])

\* a vector in units of 1/TrigScale has length 1, up to the rounding of the
\* sines
UnitLong(v) ==
    /\ v[1] * v[1] + v[2] * v[2] + v[3] * v[3] >= 998 * TrigScale
    /\ v[1] * v[1] + v[2] * v[2] + v[3] * v[3] <= 1002 * TrigScale

C35_LaterPanWins ==
    /\ [](\A k \in 1 .. Len(rafQueue) - 1 :
             rafQueue[k].elapsed >= rafQueue[k + 1].elapsed)
    /\ [][/\ \A dir \in Directions :
                (Panned(dir) /\ rafQueue # << >>)
                => /\ rafQueue'[Len(rafQueue')].startPosition = camera.position
                   /\ rafQueue'[Len(rafQueue')].startTarget = target
                   /\ rafQueue'[Len(rafQueue')].endPosition
                         = VAdd(camera.position, PanOffset(dir, orbit, topDown))
                   /\ rafQueue'[Len(rafQueue')].endTarget
                         = VAdd(target, PanOffset(dir, orbit, topDown))
          /\ \A dt \in FrameSteps :
                (Animated(dt) /\ Len(rafQueue) >= 2)
                => /\ camera'.position
                         = LerpVectors(rafQueue[Len(rafQueue)].startPosition,
                                       rafQueue[Len(rafQueue)].endPosition,
                                       rafQueue[Len(rafQueue)].elapsed + dt)
                   /\ target' = LerpVectors(rafQueue[Len(rafQueue)].startTarget,
                                            rafQueue[Len(rafQueue)].endTarget,
                                            rafQueue[Len(rafQueue)].elapsed + dt)
                   /\ (rafQueue[Len(rafQueue)].elapsed + dt >= PanTicks)
                      => /\ rafQueue' = << >>
                         /\ camera'.position = rafQueue[Len(rafQueue)].endPosition
                         /\ target' = rafQueue[Len(rafQueue)].endTarget]_vars

\* two pans upwards, the second issued a quarter into the first, have both
\* ended: the pivot rose by a quarter of the first offset and all of the second
C35_Witness ==
    /\ rafQueue = << >>
    /\ call = Some([op |-> "animate", dt |-> 2])
    /\ target = <<0, 6, 0>>
    /\ camera.position = <<50, 56, 50>>

\* C36: after every frame and every safeUpdateModelTransform call, committed
\* or rejected, the node of each mounted model has the position and the
\* rotation of the model's record.
C36_NodeMatchesRecord ==
    \A i \in mounted :
        /\ nodes[i].position = models[i].position
        /\ nodes[i].rotation = models[i].rotation

\* a call that committed a new pose for a mounted model
C36_Witness ==
    /\ Called("safeUpdateModelTransform", 0)
    /\ ret = "true"
    /\ 0 \in mounted
    /\ nodes[0].position = <<-3, 5, 0>>
    /\ nodes[0].rotation = <<1000, 0, 500>>

\* C37: a frame changes at most the selected model: the node, the record,
\* the rotation target and the dirty mark of every other model are what they
\* were, and with no selection, or no mounted node for it, no model state
\* changes at all.
C37_FrameTouchesSelectedOnly ==
    [][Internal(Frame)
       => /\ \A j \in ModelIdx :
                selectedModelIndex # Some(j)
                => /\ nodes'[j] = nodes[j]
                   /\ models'[j] = models[j]
                   /\ rotationTargets'[j] = rotationTargets[j]
                   /\ (j \in unsavedModels') = (j \in unsavedModels)
          /\ (selectedModelIndex = Null \/ ~(Val(selectedModelIndex) \in mounted))
             => /\ nodes' = nodes
                /\ models' = models
                /\ rotationTargets' = rotationTargets
                /\ unsavedModels' = unsavedModels]_vars

\* a drag has moved model 1 and marked it, and model 0 is as it was loaded
C37_Witness ==
    /\ selectedModelIndex = Some(1)
    /\ dragging
    /\ unsavedModels = {1}
    /\ nodes[1].position # << 10, 0, 0 >>
    /\ models[1].position = nodes[1].position
    /\ nodes[0].position = << -10, 0, 0 >>
    /\ models[0].position = << -10, 0, 0 >>

\* C38: once safeUpdateModelTransform has committed a rotation for the
\* selected model, a frame that gets no rotate input leaves the model's yaw
\* at the committed value, whatever rotation target an earlier gesture left.
C38_CommittedYawStays ==
    [][\A sel \in ModelIdx :
          (/\ Called("safeUpdateModelTransform", sel)
           /\ ret = "true"
           /\ selectedModelIndex = Some(sel)
           /\ ~(rotating /\ OverThreshold(pointer.xDelta))
           /\ Internal(Frame))
          => /\ nodes'[sel].rotation[2] = nodes[sel].rotation[2]
             /\ models'[sel].rotation[2] = models[sel].rotation[2]]_vars

=============================================================================
